---- MODULE Spec2Model ----
(***************************************************************************)
(* Email-OTP authentication core of riv-mvp: the Redis-backed key-value    *)
(* store with its in-memory fallback (src/lib/redis, kept in               *)
(* src/src/lib/session.ts:359-592), the OTP service (src/src/lib/otp.ts),  *)
(* the JWT token service (src/src/lib/auth.ts), the session service        *)
(* (src/src/lib/session.ts:1-357) and the rate limiter                     *)
(* (src/src/lib/rate-limiter.ts:1-229).                                    *)
(*                                                                         *)
(* Time is the wall clock in whole seconds: Date.now() is now * 1000.      *)
(* Keys and glob patterns are sequences of symbols; a configured prefix    *)
(* such as 'otp:' is one symbol.  A remote call of the store either        *)
(* succeeds ("ok") or throws ("fail"); "reject" is the redisService        *)
(* promise itself rejecting, which the services' own try/catch blocks      *)
(* handle and which only the *Fault specifications draw.                   *)
(***************************************************************************)
EXTENDS Integers, Sequences, FiniteSets, TLC

VARIABLES
  now,               \* wall clock, seconds
  client,            \* RedisService.client is non-null
  isRedisAvailable,  \* RedisService.isRedisAvailable
  redis,             \* the remote cache: key -> [value, expiresAt]
  memoryCache,       \* RedisService.memoryCache: key -> [value, expiresAt]
  memoryStore,       \* RateLimiterService.memoryStore: key -> [count, resetTime]
  rlConfig,          \* the partial RateLimitConfig callers pass to checkRateLimit
  env,               \* process environment: [production, secretLen]
  last,              \* the call that completed last, with what it returned
  written,           \* history: per backend and key, the last set it served
  accepted,          \* history: per identifier, verifyOTP = true since storeOTP
  scenario,          \* history: per identifier, progress of store/verify runs
  window,            \* history: per rate-limit key, the fixed window of calls
  pair,              \* the token pair minted last, with the arguments it was minted for
  sessionIds,        \* the session ids createSession has handed out
  cleanupInterval,   \* the timer of the periodic sweep, Null once it is cleared
  sweeps,            \* history: the sweeps the timer started and the stop calls
  verifiers,         \* per concurrent caller, where its call in flight stands
  emailService       \* the fields of the EmailService instance

vars == <<now, client, isRedisAvailable, redis, memoryCache, memoryStore,
          rlConfig, env, last, written, accepted, scenario, window, pair, sessionIds,
          cleanupInterval, sweeps, verifiers, emailService>>

(***************************************************************************)
(* Bounds of the model.                                                    *)
(***************************************************************************)
MaxTicksKV == 2
MaxTicksOTP == 1
MaxAccepted == 2

(***************************************************************************)
(* Program constants.                                                      *)
(***************************************************************************)
OTP_EXPIRY_SECONDS == 600
SESSION_EXPIRY_SECONDS == 604800
DEFAULT_REFRESH_LIMIT == 10
DEFAULT_REFRESH_WINDOW == 3600

OTP_PREFIX == "otp:"
SESSION_PREFIX == "session:"
RATE_LIMIT_PREFIX == "rate_limit:"

Outcomes == {"ok", "fail"}
FaultOutcomes == {"ok", "fail", "reject"}

DateNow == now * 1000

Null == [found |-> FALSE]
Some(v) == [found |-> TRUE, value |-> v]

Without(f, k) == [x \in DOMAIN f \ {k} |-> f[x]]
With(f, k, v) == [x \in DOMAIN f \cup {k} |-> IF x = k THEN v ELSE f[x]]

(***************************************************************************)
(* The remote cache as the client sees it: SETEX, GET, DEL and SCAN MATCH. *)
(* A key whose expiry has passed is not visible.                           *)
(***************************************************************************)
RemoteLive(r, key) == key \in DOMAIN r /\ DateNow <= r[key].expiresAt

RemoteGet(r, key) == IF RemoteLive(r, key) THEN Some(r[key].value) ELSE Null

RemoteSetEx(r, key, seconds, value) ==
  With(r, key, [value |-> value, expiresAt |-> DateNow + seconds * 1000])

RemoteDel(r, key) == Without(r, key)

\* TTL: the seconds the key has left, -2 when there is no such key.
RemoteTTL(r, key) ==
  IF RemoteLive(r, key) THEN (r[key].expiresAt - DateNow) \div 1000 ELSE -2

RECURSIVE GlobMatch(_, _)
GlobMatch(p, s) ==
  IF p = <<>> THEN s = <<>>
  ELSE IF Head(p) = "*"
       THEN GlobMatch(Tail(p), s) \/ (s # <<>> /\ GlobMatch(p, Tail(s)))
       ELSE s # <<>> /\ Head(s) = Head(p) /\ GlobMatch(Tail(p), Tail(s))

RemoteScan(r, pattern) == {k \in DOMAIN r : RemoteLive(r, k) /\ GlobMatch(pattern, k)}

(***************************************************************************)
(* new RegExp(pattern.replace(/\*/g, '.*')).test(key): an unanchored        *)
(* search in which every '*' stands for '.*' and '.' for any one symbol.   *)
(***************************************************************************)
RECURSIVE RegexMatchAt(_, _)
RegexMatchAt(p, s) ==
  IF p = <<>> THEN TRUE
  ELSE IF Head(p) = "*"
       THEN RegexMatchAt(Tail(p), s) \/ (s # <<>> /\ RegexMatchAt(p, Tail(s)))
       ELSE /\ s # <<>>
            /\ (Head(p) = "." \/ Head(s) = Head(p))
            /\ RegexMatchAt(Tail(p), Tail(s))

RegexTest(p, s) == \E i \in 1..(Len(s) + 1) : RegexMatchAt(p, SubSeq(s, i, Len(s)))

(***************************************************************************)
(* RedisService.  The store is the bundle s = [avail, redis, mem]; every   *)
(* operation returns the bundle it leaves and what it hands to its caller. *)
(* "served" names the backend that answered.                               *)
(***************************************************************************)
Store == [avail |-> isRedisAvailable, redis |-> redis, mem |-> memoryCache]

UseRemote(s) == s.avail /\ client

MemGet(s, key) ==
  IF key \notin DOMAIN s.mem
  THEN [s |-> s, value |-> Null, served |-> "memory", threw |-> FALSE]
  ELSE IF DateNow > s.mem[key].expiresAt
       THEN [s |-> [s EXCEPT !.mem = Without(s.mem, key)], value |-> Null,
             served |-> "memory", threw |-> FALSE]
       ELSE [s |-> s, value |-> Some(s.mem[key].value),
             served |-> "memory", threw |-> FALSE]

\* Mutant of Get: a disconnected store with a client tries the remote cache
\* again and counts itself connected when the read succeeds.
Get_Reconnects(s, key, o) ==
  IF o = "reject"
  THEN [s |-> s, value |-> Null, served |-> "none", threw |-> TRUE]
  ELSE IF client
       THEN IF o = "ok"
            THEN [s |-> [s EXCEPT !.avail = TRUE], value |-> RemoteGet(s.redis, key),
                  served |-> "redis", threw |-> FALSE]
            ELSE MemGet([s EXCEPT !.avail = FALSE], key)
       ELSE MemGet(s, key)

Get(s, key, o) ==
  IF o = "reject"
  THEN [s |-> s, value |-> Null, served |-> "none", threw |-> TRUE]
  ELSE IF UseRemote(s)
       THEN IF o = "ok"
            THEN [s |-> s, value |-> RemoteGet(s.redis, key),
                  served |-> "redis", threw |-> FALSE]
            ELSE MemGet([s EXCEPT !.avail = FALSE], key)
       ELSE MemGet(s, key)

\* Mutant of MemSet: the expiry is added in seconds to a clock in milliseconds.
MemSet_SecondsAsMillis(s, key, value, expirySeconds) ==
  [s |-> [s EXCEPT !.mem = With(s.mem, key,
            [value |-> value, expiresAt |-> DateNow + expirySeconds])],
   served |-> "memory", threw |-> FALSE]

MemSet(s, key, value, expirySeconds) ==
  [s |-> [s EXCEPT !.mem = With(s.mem, key,
            [value |-> value, expiresAt |-> DateNow + expirySeconds * 1000])],
   served |-> "memory", threw |-> FALSE]

\* Mutant of Set: a write the remote cache served is kept in the memory map too.
Set_WriteThrough(s, key, value, expirySeconds, o) ==
  IF o = "reject"
  THEN [s |-> s, served |-> "none", threw |-> TRUE]
  ELSE IF UseRemote(s)
       THEN IF o = "ok" /\ expirySeconds > 0
            THEN [s |-> [s EXCEPT !.redis = RemoteSetEx(s.redis, key, expirySeconds, value),
                                  !.mem = With(s.mem, key,
                                            [value |-> value,
                                             expiresAt |-> DateNow + expirySeconds * 1000])],
                  served |-> "redis", threw |-> FALSE]
            ELSE MemSet([s EXCEPT !.avail = FALSE], key, value, expirySeconds)
       ELSE MemSet(s, key, value, expirySeconds)

\* SETEX answers with an error ("invalid expire time") for a time to live
\* that is not positive, so such a write is a failing remote write.
Set(s, key, value, expirySeconds, o) ==
  IF o = "reject"
  THEN [s |-> s, served |-> "none", threw |-> TRUE]
  ELSE IF UseRemote(s)
       THEN IF o = "ok" /\ expirySeconds > 0
            THEN [s |-> [s EXCEPT !.redis = RemoteSetEx(s.redis, key, expirySeconds, value)],
                  served |-> "redis", threw |-> FALSE]
            ELSE MemSet([s EXCEPT !.avail = FALSE], key, value, expirySeconds)
       ELSE MemSet(s, key, value, expirySeconds)

MemDelete(s, key) == [s EXCEPT !.mem = Without(s.mem, key)]

\* Mutant of Delete: a failing remote DEL is thrown on to the caller.
Delete_Rethrows(s, key, o) ==
  IF o = "reject" \/ (UseRemote(s) /\ o = "fail")
  THEN [s |-> s, served |-> "none", threw |-> TRUE]
  ELSE IF UseRemote(s)
       THEN [s |-> MemDelete([s EXCEPT !.redis = RemoteDel(s.redis, key)], key),
             served |-> "redis", threw |-> FALSE]
       ELSE [s |-> MemDelete(s, key), served |-> "memory", threw |-> FALSE]

Delete(s, key, o) ==
  IF o = "reject"
  THEN [s |-> s, served |-> "none", threw |-> TRUE]
  ELSE IF UseRemote(s)
       THEN IF o = "ok"
            THEN [s |-> MemDelete([s EXCEPT !.redis = RemoteDel(s.redis, key)], key),
                  served |-> "redis", threw |-> FALSE]
            ELSE [s |-> MemDelete(s, key), served |-> "memory", threw |-> FALSE]
       ELSE [s |-> MemDelete(s, key), served |-> "memory", threw |-> FALSE]

MemGetTTL(s, key) ==
  IF key \notin DOMAIN s.mem
  THEN [s |-> s, value |-> Null, served |-> "memory", threw |-> FALSE]
  ELSE LET diff == (s.mem[key].expiresAt - DateNow) \div 1000
           remaining == IF diff > 0 THEN diff ELSE 0
       IN [s |-> s, value |-> IF remaining > 0 THEN Some(remaining) ELSE Null,
           served |-> "memory", threw |-> FALSE]

GetTTL(s, key, o) ==
  IF o = "reject"
  THEN [s |-> s, value |-> Null, served |-> "none", threw |-> TRUE]
  ELSE IF UseRemote(s)
       THEN IF o = "ok"
            THEN LET ttl == RemoteTTL(s.redis, key)
                 IN [s |-> s, value |-> IF ttl > 0 THEN Some(ttl) ELSE Null,
                     served |-> "redis", threw |-> FALSE]
            ELSE MemGetTTL([s EXCEPT !.avail = FALSE], key)
       ELSE MemGetTTL(s, key)

MemScan(s, pattern) ==
  [s |-> s,
   keys |-> {k \in DOMAIN s.mem : RegexTest(pattern, k) /\ DateNow <= s.mem[k].expiresAt},
   served |-> "memory", threw |-> FALSE]

ScanKeys(s, pattern, o) ==
  IF o = "reject"
  THEN [s |-> s, keys |-> {}, served |-> "none", threw |-> TRUE]
  ELSE IF UseRemote(s)
       THEN IF o = "ok"
            THEN [s |-> s, keys |-> RemoteScan(s.redis, pattern),
                  served |-> "redis", threw |-> FALSE]
            ELSE MemScan([s EXCEPT !.avail = FALSE], pattern)
       ELSE MemScan(s, pattern)

IsConnected(s) == s.avail

SweepMemoryCache(m) == [k \in {x \in DOMAIN m : ~(DateNow > m[x].expiresAt)} |-> m[k]]

(***************************************************************************)
(* The state after construction.  initialize() has run: without REDIS_URL, *)
(* or when connect() failed, client is null and the flag is false;         *)
(* otherwise the client exists and the flag is true.                       *)
(***************************************************************************)
Empty == [k \in {} |-> 0]

NoCall == [op |-> "none"]

\* The EmailService after construction and initializeConfig: no rate-limit
\* entry, no delivery status, no retry pending, no email id handed out yet.
NewEmailService ==
  [initialized |-> TRUE, rateLimitMap |-> Empty, deliveryStatusMap |-> Empty,
   timeoutIds |-> {}, issued |-> 0]

NoPair == [minted |-> FALSE]

InitStore ==
  /\ now = 0
  /\ client \in BOOLEAN
  /\ isRedisAvailable = client
  /\ redis = Empty
  /\ memoryCache = Empty

DevEnv == [production |-> FALSE, secretLen |-> 32]

InitRest ==
  /\ memoryStore = Empty
  /\ rlConfig = Empty
  /\ env = DevEnv
  /\ last = NoCall
  /\ written = [redis |-> Empty, memory |-> Empty]
  /\ accepted = Empty
  /\ scenario = Empty
  /\ window = Empty
  /\ pair = NoPair
  /\ sessionIds = {}
  /\ cleanupInterval = Null
  /\ sweeps = <<>>
  /\ verifiers = Empty
  /\ emailService = NewEmailService

PutStore(s) ==
  /\ isRedisAvailable' = s.avail
  /\ redis' = s.redis
  /\ memoryCache' = s.mem
  /\ UNCHANGED client

(***************************************************************************)
(* Environment: the clock, the client's 'error' and 'connect' events, and  *)
(* the 60 s sweep of the memory cache.  Expired remote keys are dropped by *)
(* the remote cache itself as the clock moves.                             *)
(***************************************************************************)
\* The instants the clock visits: up to k seconds into each of the first two
\* periods, so that a record is seen before, at and after its expiry.
Instants(period, k) == {p * period + i : p \in 0..1, i \in 0..k}

Advance(d, instants) ==
  /\ now + d \in instants
  /\ now' = now + d
  /\ redis' = [k \in {x \in DOMAIN redis : (now + d) * 1000 <= redis[x].expiresAt} |-> redis[k]]
  /\ UNCHANGED <<client, isRedisAvailable, memoryCache, memoryStore, rlConfig, env,
                 last, written, accepted, scenario, window, pair, sessionIds,
                 cleanupInterval, sweeps, verifiers, emailService>>

RedisError ==
  /\ client
  /\ isRedisAvailable
  /\ isRedisAvailable' = FALSE
  /\ UNCHANGED <<now, client, redis, memoryCache, memoryStore, rlConfig, env,
                 last, written, accepted, scenario, window, pair, sessionIds,
                 cleanupInterval, sweeps, verifiers, emailService>>

RedisConnect ==
  /\ client
  /\ ~isRedisAvailable
  /\ isRedisAvailable' = TRUE
  /\ UNCHANGED <<now, client, redis, memoryCache, memoryStore, rlConfig, env,
                 last, written, accepted, scenario, window, pair, sessionIds,
                 cleanupInterval, sweeps, verifiers, emailService>>

MemoryCacheCleanup ==
  /\ memoryCache' = SweepMemoryCache(memoryCache)
  /\ memoryCache' # memoryCache
  /\ UNCHANGED <<now, client, isRedisAvailable, redis, memoryStore, rlConfig, env,
                 last, written, accepted, scenario, window, pair, sessionIds,
                 cleanupInterval, sweeps, verifiers, emailService>>

(***************************************************************************)
(* SpecKV: the key-value store called directly.                            *)
(***************************************************************************)
KVKeys == {<<"a">>, <<"a", "b">>}
KVWrites ==
  {[key |-> <<"a">>, value |-> "v1", ttl |-> 1],
   [key |-> <<"a">>, value |-> "v2", ttl |-> 2],
   [key |-> <<"a", "b">>, value |-> "v1", ttl |-> 1]}
KVPatterns == {<<"a", "*">>, <<"b">>, <<"b", "*">>}

RemoteThrew(o) == UseRemote(Store) /\ o = "fail"

NoteSet(w, served, key, value, ttl) ==
  IF served \in {"redis", "memory"}
  THEN [w EXCEPT ![served] = With(w[served], key, [value |-> value, at |-> now, ttl |-> ttl])]
  ELSE w

NoteDelete(w, served, key) ==
  IF served = "none" THEN w
  ELSE [redis |-> IF served = "redis" THEN Without(w.redis, key) ELSE w.redis,
        memory |-> Without(w.memory, key)]

KvGet(key, o) ==
  \E r \in {Get(Store, key, o)} :
  /\ PutStore(r.s)
  /\ last' = [op |-> "get", at |-> now, key |-> key, remoteThrew |-> RemoteThrew(o),
              wasConnected |-> IsConnected(Store), connected |-> IsConnected(r.s),
              served |-> r.served, threw |-> r.threw, value |-> r.value]
  /\ UNCHANGED <<now, memoryStore, rlConfig, env, written, accepted, scenario, window, pair, sessionIds,
                 cleanupInterval, sweeps, verifiers, emailService>>

KvSet(key, value, ttl, o) ==
  \E r \in {Set(Store, key, value, ttl, o)} :
  /\ PutStore(r.s)
  /\ last' = [op |-> "set", at |-> now, key |-> key, remoteThrew |-> RemoteThrew(o),
              wasConnected |-> IsConnected(Store), connected |-> IsConnected(r.s),
              served |-> r.served, threw |-> r.threw, value |-> Some(value), ttl |-> ttl]
  /\ written' = NoteSet(written, r.served, key, value, ttl)
  /\ UNCHANGED <<now, memoryStore, rlConfig, env, accepted, scenario, window, pair, sessionIds,
                 cleanupInterval, sweeps, verifiers, emailService>>

KvDelete(key, o) ==
  \E r \in {Delete(Store, key, o)} :
  /\ PutStore(r.s)
  /\ last' = [op |-> "delete", at |-> now, key |-> key, remoteThrew |-> RemoteThrew(o),
              wasConnected |-> IsConnected(Store), connected |-> IsConnected(r.s),
              served |-> r.served, threw |-> r.threw]
  /\ written' = NoteDelete(written, r.served, key)
  /\ UNCHANGED <<now, memoryStore, rlConfig, env, accepted, scenario, window, pair, sessionIds,
                 cleanupInterval, sweeps, verifiers, emailService>>

KvGetTTL(key, o) ==
  \E r \in {GetTTL(Store, key, o)} :
  /\ PutStore(r.s)
  /\ last' = [op |-> "getTTL", at |-> now, key |-> key, remoteThrew |-> RemoteThrew(o),
              wasConnected |-> IsConnected(Store), connected |-> IsConnected(r.s),
              served |-> r.served, threw |-> r.threw, value |-> r.value]
  /\ UNCHANGED <<now, memoryStore, rlConfig, env, written, accepted, scenario, window, pair, sessionIds,
                 cleanupInterval, sweeps, verifiers, emailService>>

KvScanKeys(pattern, o) ==
  \E r \in {ScanKeys(Store, pattern, o)} :
  /\ PutStore(r.s)
  /\ last' = [op |-> "scanKeys", at |-> now, pattern |-> pattern, remoteThrew |-> RemoteThrew(o),
              wasConnected |-> IsConnected(Store), connected |-> IsConnected(r.s),
              served |-> r.served, threw |-> r.threw, keys |-> r.keys]
  /\ UNCHANGED <<now, memoryStore, rlConfig, env, written, accepted, scenario, window, pair, sessionIds,
                 cleanupInterval, sweeps, verifiers, emailService>>

TickKV == Advance(1, 0..MaxTicksKV)

InitKV == InitStore /\ InitRest

NextKV ==
  \/ \E k \in KVKeys, o \in Outcomes : KvGet(k, o)
  \/ \E w \in KVWrites, o \in Outcomes : KvSet(w.key, w.value, w.ttl, o)
  \/ \E k \in KVKeys, o \in Outcomes : KvDelete(k, o)
  \/ \E k \in KVKeys, o \in Outcomes : KvGetTTL(k, o)
  \/ \E p \in KVPatterns, o \in Outcomes : KvScanKeys(p, o)
  \/ TickKV
  \/ RedisError
  \/ RedisConnect
  \/ MemoryCacheCleanup

SpecKV == InitKV /\ [][NextKV]_vars

(***************************************************************************)
(* C5.  Round trip of the key-value store: a get answered by a backend     *)
(* returns the value of the last set that backend served for the key while *)
(* fewer than ttl seconds have passed since that set, and null once more   *)
(* than ttl seconds have passed; on the remote cache and on the memory     *)
(* fallback alike.                                                         *)
(***************************************************************************)
GetAfterSet ==
  /\ last.op = "get"
  /\ last.served \in {"redis", "memory"}
  /\ last.key \in DOMAIN written[last.served]

C5_RoundTrip ==
  GetAfterSet =>
    LET w == written[last.served][last.key] IN
    /\ (last.at < w.at + w.ttl => last.value = Some(w.value))
    /\ (last.at > w.at + w.ttl => last.value = Null)

C5_Witness ==
  /\ GetAfterSet
  /\ last.served = "memory"
  /\ last.at > written.memory[last.key].at
  /\ last.at < written.memory[last.key].at + written.memory[last.key].ttl
  /\ last.value = Some(written.memory[last.key].value)

C5_WitnessExpired ==
  /\ GetAfterSet
  /\ last.served = "redis"
  /\ last.at > written.redis[last.key].at + written.redis[last.key].ttl
  /\ last.value = Null

(***************************************************************************)
(* C6.  A remote call that throws never reaches the caller of get, set,    *)
(* delete or scanKeys: the call completes normally, and get and scanKeys   *)
(* return what the memory map holds, set leaves the value in the memory    *)
(* map with its expiry, delete leaves the key out of the memory map.       *)
(***************************************************************************)
MemoryAnswer(key) ==
  IF key \in DOMAIN memoryCache /\ DateNow <= memoryCache[key].expiresAt
  THEN Some(memoryCache[key].value)
  ELSE Null

KvCallJustReturned ==
  /\ last.op \in {"get", "set", "delete", "scanKeys"}
  /\ last.at = now

C6_RemoteFailureContained ==
  KvCallJustReturned =>
    /\ ~last.threw
    /\ last.remoteThrew =>
         /\ last.served = "memory"
         /\ last.op = "get" => last.value = MemoryAnswer(last.key)
         /\ last.op = "set" =>
              /\ last.key \in DOMAIN memoryCache
              /\ memoryCache[last.key] =
                   [value |-> last.value.value,
                    expiresAt |-> last.at * 1000 + last.ttl * 1000]
         /\ last.op = "delete" => last.key \notin DOMAIN memoryCache
         /\ last.op = "scanKeys" =>
              last.keys = {k \in DOMAIN memoryCache :
                             /\ DateNow <= memoryCache[k].expiresAt
                             /\ RegexTest(last.pattern, k)}

C6_Witness ==
  /\ last.op = "scanKeys"
  /\ last.remoteThrew
  /\ ~last.threw
  /\ last.keys # {}

(***************************************************************************)
(* OTPService.  Each handler is an operator from the store it finds to the *)
(* store it leaves, its result, and the store calls it issued.             *)
(***************************************************************************)
OTPUser == "a@b.com"
OTPIds == {OTPUser}
OTPCodes == {"123456", "000000"}

OtpKey(identifier) == <<OTP_PREFIX, identifier>>

Call(name, r) == [call |-> name, served |-> r.served, threw |-> r.threw]

\* Mutant of storeOTP: a rejecting set is logged and not thrown on.
storeOTP_Swallows(s, identifier, otp, o) ==
  LET w == Set(s, OtpKey(identifier), otp, OTP_EXPIRY_SECONDS, o) IN
  [s |-> w.s, threw |-> FALSE, message |-> <<>>, calls |-> <<Call("set", w)>>]

storeOTP(s, identifier, otp, o) ==
  LET w == Set(s, OtpKey(identifier), otp, OTP_EXPIRY_SECONDS, o) IN
  [s |-> w.s, threw |-> w.threw,
   message |-> IF w.threw THEN <<"Failed to store OTP">> ELSE <<>>,
   calls |-> <<Call("set", w)>>]

deleteOTP(s, identifier, o) ==
  LET d == Delete(s, OtpKey(identifier), o) IN
  [s |-> d.s, threw |-> d.threw, calls |-> <<Call("delete", d)>>]

\* Mutant of verifyOTP: no try/catch around the store calls.
verifyOTP_NoCatch(s, identifier, otp, o1, o2) ==
  LET g == Get(s, OtpKey(identifier), o1)
      d == deleteOTP(g.s, identifier, o2)
  IN  IF g.threw
      THEN [s |-> g.s, result |-> FALSE, threw |-> TRUE, calls |-> <<Call("get", g)>>]
      ELSE IF ~g.value.found
      THEN [s |-> g.s, result |-> FALSE, threw |-> FALSE, calls |-> <<Call("get", g)>>]
      ELSE IF g.value.value = otp
      THEN [s |-> d.s, result |-> ~d.threw, threw |-> d.threw,
            calls |-> <<Call("get", g)>> \o d.calls]
      ELSE [s |-> g.s, result |-> FALSE, threw |-> FALSE, calls |-> <<Call("get", g)>>]

verifyOTP(s, identifier, otp, o1, o2) ==
  LET g == Get(s, OtpKey(identifier), o1)
      d == deleteOTP(g.s, identifier, o2)
  IN  IF g.threw
      THEN [s |-> g.s, result |-> FALSE, threw |-> FALSE, calls |-> <<Call("get", g)>>]
      ELSE IF ~g.value.found
      THEN [s |-> g.s, result |-> FALSE, threw |-> FALSE, calls |-> <<Call("get", g)>>]
      ELSE IF g.value.value = otp
      THEN IF d.threw
           THEN [s |-> d.s, result |-> FALSE, threw |-> FALSE,
                 calls |-> <<Call("get", g)>> \o d.calls]
           ELSE [s |-> d.s, result |-> TRUE, threw |-> FALSE,
                 calls |-> <<Call("get", g)>> \o d.calls]
      ELSE [s |-> g.s, result |-> FALSE, threw |-> FALSE, calls |-> <<Call("get", g)>>]

(***************************************************************************)
(* History of the OTP calls.  accepted[id] holds the code of the last      *)
(* storeOTP for id and counts the verifyOTP(id, code) calls that returned  *)
(* true since.  scenario[id] follows the run store, verify(wrong),         *)
(* verify(right), verify(right).                                           *)
(***************************************************************************)
Idle == [phase |-> "idle"]

Bump(n) == IF n < MaxAccepted THEN n + 1 ELSE n

AfterVerify(sc, otp, r, pre) ==
  IF sc.phase \in {"stored", "mismatch"} /\ otp # sc.code
  THEN [phase |-> "mismatch", code |-> sc.code, at |-> sc.at, result |-> r.result,
        deleted |-> (\E i \in DOMAIN r.calls : r.calls[i].call = "delete"),
        intact |-> (r.s.redis = pre.redis /\ r.s.mem = pre.mem)]
  ELSE IF sc.phase = "mismatch" /\ otp = sc.code /\ now < sc.at + OTP_EXPIRY_SECONDS
  THEN [phase |-> "match", code |-> sc.code, at |-> sc.at, result |-> r.result,
        asClaimed |-> (~sc.result /\ ~sc.deleted /\ sc.intact)]
  ELSE IF sc.phase = "match" /\ otp = sc.code
  THEN [phase |-> "second", code |-> sc.code, at |-> sc.at, result |-> r.result,
        asClaimed |-> (sc.asClaimed /\ sc.result)]
  ELSE Idle

StoreOTP(identifier, otp, o) ==
  \E r \in {storeOTP(Store, identifier, otp, o)} :
  /\ PutStore(r.s)
  /\ last' = [op |-> "storeOTP", at |-> now, id |-> identifier, otp |-> otp,
              remoteThrew |-> RemoteThrew(o), threw |-> r.threw,
              message |-> r.message, calls |-> r.calls,
              retrievable |-> verifyOTP(r.s, identifier, otp, "ok", "ok").result]
  /\ accepted' = IF r.threw \/ identifier \notin DOMAIN accepted
                 THEN accepted
                 ELSE [accepted EXCEPT ![identifier] = [code |-> otp, n |-> 0]]
  /\ scenario' = IF identifier \notin DOMAIN scenario
                 THEN scenario
                 ELSE [scenario EXCEPT ![identifier] =
                         IF r.threw THEN Idle
                         ELSE [phase |-> "stored", code |-> otp, at |-> now]]
  /\ UNCHANGED <<now, memoryStore, rlConfig, env, written, window, pair, sessionIds,
                 cleanupInterval, sweeps, verifiers, emailService>>

VerifyOTP(identifier, otp, o1, o2) ==
  \E r \in {verifyOTP(Store, identifier, otp, o1, o2)} :
  /\ PutStore(r.s)
  /\ last' = [op |-> "verifyOTP", id |-> identifier, otp |-> otp,
              found |-> Get(Store, OtpKey(identifier), o1).value,
              result |-> r.result, threw |-> r.threw, calls |-> r.calls]
  /\ accepted' = IF /\ r.result /\ ~r.threw
                    /\ identifier \in DOMAIN accepted
                    /\ otp = accepted[identifier].code
                 THEN [accepted EXCEPT ![identifier].n = Bump(@)]
                 ELSE accepted
  /\ scenario' = IF identifier \notin DOMAIN scenario
                 THEN scenario
                 ELSE [scenario EXCEPT ![identifier] = AfterVerify(@, otp, r, Store)]
  /\ UNCHANGED <<now, memoryStore, rlConfig, env, written, window, pair, sessionIds,
                 cleanupInterval, sweeps, verifiers, emailService>>

DeleteOTP(identifier, o) ==
  \E r \in {deleteOTP(Store, identifier, o)} :
  /\ PutStore(r.s)
  /\ last' = [op |-> "deleteOTP", id |-> identifier,
              threw |-> r.threw, calls |-> r.calls]
  /\ scenario' = IF identifier \notin DOMAIN scenario
                 THEN scenario
                 ELSE [scenario EXCEPT ![identifier] = Idle]
  /\ UNCHANGED <<now, memoryStore, rlConfig, env, written, accepted, window, pair, sessionIds,
                 cleanupInterval, sweeps, verifiers, emailService>>

TickOTP == \E d \in {1, OTP_EXPIRY_SECONDS} : Advance(d, Instants(OTP_EXPIRY_SECONDS, MaxTicksOTP))

\* The history each specification keeps is the one its Init gives a domain.
InitOTPWith(acc, sc) ==
  /\ InitStore
  /\ memoryStore = Empty
  /\ rlConfig = Empty
  /\ env = DevEnv
  /\ last = NoCall
  /\ written = [redis |-> Empty, memory |-> Empty]
  /\ accepted = acc
  /\ scenario = sc
  /\ window = Empty
  /\ pair = NoPair
  /\ sessionIds = {}
  /\ cleanupInterval = Null
  /\ sweeps = <<>>
  /\ verifiers = Empty
  /\ emailService = NewEmailService

InitOTP == InitOTPWith([i \in OTPIds |-> [code |-> "", n |-> 0]], Empty)
InitOTPScenario == InitOTPWith(Empty, [i \in OTPIds |-> Idle])
InitOTPFault == InitOTPWith(Empty, Empty)

OTPCalls(ids, outs) ==
  \/ \E i \in ids, c \in OTPCodes, o \in outs : StoreOTP(i, c, o)
  \/ \E i \in ids, c \in OTPCodes, o1 \in outs, o2 \in outs : VerifyOTP(i, c, o1, o2)
  \/ \E i \in ids, o \in outs : DeleteOTP(i, o)

OTPEnvironment ==
  \/ TickOTP
  \/ RedisError
  \/ RedisConnect
  \/ MemoryCacheCleanup

NextOTP == OTPCalls(OTPIds, Outcomes) \/ OTPEnvironment

SpecOTP == InitOTP /\ [][NextOTP]_vars

NextOTPScenario == OTPCalls(OTPIds, Outcomes) \/ OTPEnvironment

SpecOTPScenario == InitOTPScenario /\ [][NextOTPScenario]_vars

NextOTPFault == OTPCalls(OTPIds, FaultOutcomes) \/ OTPEnvironment

SpecOTPFault == InitOTPFault /\ [][NextOTPFault]_vars

(***************************************************************************)
(* C1.  One-time use: after a storeOTP(id, otp), at most one later         *)
(* verifyOTP(id, otp) returns true until the next storeOTP for id,         *)
(* whichever backend serves each get and delete.                           *)
(***************************************************************************)
C1_OneTimeUse == \A i \in DOMAIN accepted : accepted[i].n <= 1

(***************************************************************************)
(* C2.  A verifyOTP with a wrong code returns false, issues no delete and  *)
(* leaves the stored record as it was; the following verifyOTP with the    *)
(* stored code, within the TTL, returns true, and the one after that       *)
(* returns false.  C2_MismatchKeepsRecord is the whole claim;              *)
(* C2_ConsumedAfterMismatch is its last step alone: when the mismatch and  *)
(* the verifyOTP after it went as the claim says, the next verifyOTP with  *)
(* the stored code returns false.                                          *)
(***************************************************************************)
C2_MismatchKeepsRecord ==
  \A i \in DOMAIN scenario :
    LET sc == scenario[i] IN
    /\ sc.phase = "mismatch" => ~sc.result /\ ~sc.deleted /\ sc.intact
    /\ sc.phase = "match" => sc.result
    /\ sc.phase = "second" => ~sc.result

C2_ConsumedAfterMismatch ==
  \A i \in DOMAIN scenario :
    LET sc == scenario[i] IN
    (sc.phase = "second" /\ sc.asClaimed) => ~sc.result

(***************************************************************************)
(* C7.  verifyOTP fails closed: when the read or the delete of the store   *)
(* throws, verifyOTP returns false; it neither returns true nor throws.    *)
(***************************************************************************)
StoreCallThrew == \E n \in DOMAIN last.calls : last.calls[n].threw

C7_VerifyFailsClosed ==
  (last.op = "verifyOTP" /\ StoreCallThrew) => (~last.result /\ ~last.threw)

C7_Witness ==
  /\ last.op = "verifyOTP"
  /\ Len(last.calls) = 2
  /\ ~last.calls[1].threw
  /\ last.calls[2].threw
  /\ ~last.result
  /\ ~last.threw


(***************************************************************************)
(* Tokens (auth.ts).  A token is the claims it carries and the key its     *)
(* HS256 signature was made with; key "malformed" stands for a string that *)
(* is not a JWT.  A result is either Returned(v) or Threw(class, message), *)
(* a message being the sequence of the pieces the code concatenates.       *)
(***************************************************************************)
ACCESS_TOKEN_EXPIRY == 900
REFRESH_TOKEN_EXPIRY == 604800
MIN_SECRET_LENGTH == 32

JWT_SECRET == "JWT_SECRET"

Returned(v) == [threw |-> FALSE, value |-> v]
Threw(class, message) == [threw |-> TRUE, class |-> class, message |-> message]

\* SecretsService.getSecretSync('JWT_SECRET'): the Tencent manager throws, the
\* local one reads process.env; an empty value is undefined (value || default).
getSecretSync ==
  IF env.production
  THEN Threw("Error", <<"Sync secret retrieval not supported for Tencent Cloud SSM">>)
  ELSE Returned(env.secretLen)

getJWTSecret ==
  LET secret == getSecretSync IN
  IF secret.threw THEN secret
  ELSE IF secret.value = 0
  THEN Threw("Error", <<"JWT_SECRET is required but not found">>)
  ELSE IF secret.value < MIN_SECRET_LENGTH
  THEN Threw("Error", <<"JWT_SECRET must be at least 32 characters long">>)
  ELSE Returned(JWT_SECRET)

\* jwt.sign(payload, secret, {algorithm: 'HS256', expiresIn}).
jwtSign(payload, secret, expiresIn) ==
  [payload |-> [userId |-> payload.userId, email |-> payload.email,
                type |-> payload.type, iat |-> now, exp |-> now + expiresIn],
   key |-> secret]

\* jwt.verify(token, secret, {algorithms: ['HS256']}): format, signature,
\* nbf, exp, in that order.
jwtVerify(token, secret) ==
  IF token.key = "malformed"
  THEN Threw("JsonWebTokenError", <<"jwt malformed">>)
  ELSE IF token.key # secret
  THEN Threw("JsonWebTokenError", <<"invalid signature">>)
  ELSE IF "nbf" \in DOMAIN token.payload /\ token.payload.nbf > now
  THEN Threw("NotBeforeError", <<"jwt not active">>)
  ELSE IF "exp" \in DOMAIN token.payload /\ now >= token.payload.exp
  THEN Threw("TokenExpiredError", <<"jwt expired">>)
  ELSE Returned(token.payload)

\* instanceof jwt.JsonWebTokenError: the two other classes extend it.
InstanceOfJsonWebTokenError(class) ==
  class \in {"JsonWebTokenError", "TokenExpiredError", "NotBeforeError"}

\* !decoded.f for a string claim: absent or empty.
Falsy(decoded, f) == f \notin DOMAIN decoded \/ decoded[f] = ""

createToken(payload, expiresIn) ==
  LET secret == getJWTSecret IN
  IF secret.threw
  THEN Threw("Error", <<"Failed to create JWT token: ">> \o secret.message)
  ELSE Returned(jwtSign(payload, secret.value, expiresIn))

\* Mutant of createTokenPair: the refresh token is minted with type 'access'.
createTokenPair_RefreshAsAccess(userId, email) ==
  LET accessToken == createToken([userId |-> userId, email |-> email,
                                  type |-> "access"], ACCESS_TOKEN_EXPIRY)
      refreshToken == createToken([userId |-> userId, email |-> email,
                                   type |-> "access"], REFRESH_TOKEN_EXPIRY)
  IN IF accessToken.threw
     THEN Threw("Error", <<"Failed to create token pair: ">> \o accessToken.message)
     ELSE Returned([accessToken |-> accessToken.value,
                    refreshToken |-> refreshToken.value,
                    expiresIn |-> ACCESS_TOKEN_EXPIRY])

createTokenPair(userId, email) ==
  LET accessToken == createToken([userId |-> userId, email |-> email,
                                  type |-> "access"], ACCESS_TOKEN_EXPIRY)
      refreshToken == createToken([userId |-> userId, email |-> email,
                                   type |-> "refresh"], REFRESH_TOKEN_EXPIRY)
  IN IF accessToken.threw
     THEN Threw("Error", <<"Failed to create token pair: ">> \o accessToken.message)
     ELSE IF refreshToken.threw
     THEN Threw("Error", <<"Failed to create token pair: ">> \o refreshToken.message)
     ELSE Returned([accessToken |-> accessToken.value,
                    refreshToken |-> refreshToken.value,
                    expiresIn |-> ACCESS_TOKEN_EXPIRY])

verifyToken(token) ==
  LET secret == getJWTSecret
      decoded == jwtVerify(token, secret.value)
      body == IF secret.threw THEN secret
              ELSE IF decoded.threw THEN decoded
              ELSE IF \/ Falsy(decoded.value, "userId")
                      \/ Falsy(decoded.value, "email")
                      \/ Falsy(decoded.value, "type")
              THEN Threw("Error", <<"Invalid token structure">>)
              ELSE IF "exp" \in DOMAIN decoded.value /\ decoded.value.exp < now
              THEN Threw("Error", <<"Token has expired">>)
              ELSE decoded
  IN IF ~body.threw THEN body
     ELSE IF InstanceOfJsonWebTokenError(body.class)
     THEN Threw("Error", <<"Invalid token: ">> \o body.message)
     ELSE IF body.class = "TokenExpiredError"
     THEN Threw("Error", <<"Token has expired">>)
     ELSE IF body.class = "NotBeforeError"
     THEN Threw("Error", <<"Token not active yet">>)
     ELSE Threw("Error", <<"Token verification failed: ">> \o body.message)

\* An Authorization header is a sequence of pieces: Space is one space
\* character, Word(w) a run of other characters, Jwt(t) the compact form of
\* the token t, which holds no space.
Space == [text |-> " "]
Word(w) == [text |-> w]
Jwt(token) == [jwt |-> token]

\* authHeader.split(' '): a new part starts after every space.
RECURSIVE Split(_)
Split(header) ==
  IF header = <<>> THEN << <<>> >>
  ELSE LET parts == Split(SubSeq(header, 1, Len(header) - 1))
           piece == header[Len(header)]
       IN IF piece = Space THEN Append(parts, <<>>)
          ELSE [parts EXCEPT ![Len(parts)] = Append(@, piece)]

\* The token a part is when handed to jwt.verify: the token it spells, or a
\* string that is not a JWT.
AsToken(part) ==
  IF Len(part) = 1 /\ "jwt" \in DOMAIN part[1] THEN part[1].jwt
  ELSE [payload |-> Empty, key |-> "malformed"]

Extracted(body, verified) ==
  [result |-> IF body.threw
              THEN Threw("Error", <<"Failed to extract token from header: ">>
                                    \o body.message)
              ELSE body,
   verified |-> verified]

\* Mutant of extractTokenFromHeader: the scheme is not looked at.
extractTokenFromHeader_AnyScheme(authHeader) ==
  LET parts == Split(authHeader) IN
  IF authHeader = <<>>
  THEN Extracted(Threw("Error", <<"Authorization header is required">>), <<>>)
  ELSE IF Len(parts) # 2
  THEN Extracted(Threw("Error",
         <<"Authorization header must be in format \"Bearer <token>\"">>), <<>>)
  ELSE IF parts[2] = <<>>
  THEN Extracted(Threw("Error", <<"Token is required in Authorization header">>), <<>>)
  ELSE Extracted(verifyToken(AsToken(parts[2])), <<AsToken(parts[2])>>)

\* verified lists the tokens verifyToken was called with.
extractTokenFromHeader(authHeader) ==
  LET parts == Split(authHeader) IN
  IF authHeader = <<>>
  THEN Extracted(Threw("Error", <<"Authorization header is required">>), <<>>)
  ELSE IF Len(parts) # 2 \/ parts[1] # <<Word("Bearer")>>
  THEN Extracted(Threw("Error",
         <<"Authorization header must be in format \"Bearer <token>\"">>), <<>>)
  ELSE IF parts[2] = <<>>
  THEN Extracted(Threw("Error", <<"Token is required in Authorization header">>), <<>>)
  ELSE Extracted(verifyToken(AsToken(parts[2])), <<AsToken(parts[2])>>)

isAccessToken(token) ==
  LET payload == verifyToken(token) IN
  IF payload.threw THEN FALSE ELSE payload.value.type = "access"

isRefreshToken(token) ==
  LET payload == verifyToken(token) IN
  IF payload.threw THEN FALSE ELSE payload.value.type = "refresh"

\* Mutant of authenticateUser: the type of the token is not looked at.
authenticateUser_AnyType(token) ==
  LET payload == verifyToken(token) IN
  IF payload.threw
  THEN [success |-> FALSE, error |-> payload.message]
  ELSE [success |-> TRUE,
        user |-> [userId |-> payload.value.userId, email |-> payload.value.email]]

authenticateUser(token) ==
  LET payload == verifyToken(token) IN
  IF payload.threw
  THEN [success |-> FALSE, error |-> payload.message]
  ELSE IF payload.value.type # "access"
  THEN [success |-> FALSE, error |-> <<"Invalid token type. Access token required.">>]
  ELSE [success |-> TRUE,
        user |-> [userId |-> payload.value.userId, email |-> payload.value.email]]

\* Mutant of refreshAccessToken: the type of the token is not looked at.
refreshAccessToken_AnyType(refreshToken) ==
  LET payload == verifyToken(refreshToken)
      body == IF payload.threw THEN payload
              ELSE createTokenPair(payload.value.userId, payload.value.email)
  IN IF body.threw
     THEN Threw("Error", <<"Failed to refresh access token: ">> \o body.message)
     ELSE body

\* Mutant of refreshAccessToken: a refresh token is good for one refresh.
refreshAccessToken_SingleUse(refreshToken) ==
  LET payload == verifyToken(refreshToken)
      body == IF payload.threw THEN payload
              ELSE IF payload.value.type # "refresh"
              THEN Threw("Error", <<"Invalid token type. Refresh token required.">>)
              ELSE IF refreshToken \in accepted.used
              THEN Threw("Error", <<"Refresh token already used">>)
              ELSE createTokenPair(payload.value.userId, payload.value.email)
  IN IF body.threw
     THEN Threw("Error", <<"Failed to refresh access token: ">> \o body.message)
     ELSE body

refreshAccessToken(refreshToken) ==
  LET payload == verifyToken(refreshToken)
      body == IF payload.threw THEN payload
              ELSE IF payload.value.type # "refresh"
              THEN Threw("Error", <<"Invalid token type. Refresh token required.">>)
              ELSE createTokenPair(payload.value.userId, payload.value.email)
  IN IF body.threw
     THEN Threw("Error", <<"Failed to refresh access token: ">> \o body.message)
     ELSE body

(***************************************************************************)
(* SpecToken: the token functions called with the tokens of the pair       *)
(* minted last and with tokens crafted by a caller.  The environment is    *)
(* fixed for a run: development or production, the secret absent, too      *)
(* short or long enough.                                                   *)
(***************************************************************************)
MaxTicksToken == 1

TokenUserIds == {"u1", ""}
TokenEmails == {"a@b.com", ""}
SecretLengths == {0, MIN_SECRET_LENGTH - 1, MIN_SECRET_LENGTH}
Environments == [production : BOOLEAN, secretLen : SecretLengths]

TokenInstants ==
  Instants(ACCESS_TOKEN_EXPIRY, MaxTicksToken)
    \cup Instants(REFRESH_TOKEN_EXPIRY, MaxTicksToken)

TokenClaims(type, exp) ==
  [userId |-> "u1", email |-> "a@b.com", type |-> type, iat |-> 0, exp |-> exp]

CraftedTokens ==
  {[payload |-> TokenClaims(type, ACCESS_TOKEN_EXPIRY), key |-> k] :
     type \in {"access", "refresh", "admin"}, k \in {JWT_SECRET, "other"}}
  \cup {[payload |-> TokenClaims("refresh", REFRESH_TOKEN_EXPIRY), key |-> JWT_SECRET],
        [payload |-> [email |-> "a@b.com", type |-> "access", iat |-> 0,
                      exp |-> ACCESS_TOKEN_EXPIRY], key |-> JWT_SECRET],
        [payload |-> [userId |-> "u1", email |-> "a@b.com", type |-> "access",
                      iat |-> 0], key |-> JWT_SECRET],
        [payload |-> [userId |-> "u1", email |-> "a@b.com", type |-> "access",
                      iat |-> 0, exp |-> REFRESH_TOKEN_EXPIRY,
                      nbf |-> ACCESS_TOKEN_EXPIRY], key |-> JWT_SECRET],
        [payload |-> Empty, key |-> "malformed"]}

PairTokens ==
  IF pair.minted THEN {pair.tokens.accessToken, pair.tokens.refreshToken} ELSE {}

PresentedTokens == CraftedTokens \cup PairTokens

\* The headers presented: the well-formed one for every token, and for one
\* token every other shape the handler tells apart.
HeaderToken == [payload |-> TokenClaims("access", ACCESS_TOKEN_EXPIRY), key |-> JWT_SECRET]

BearerHeaders == {<<Word("Bearer"), Space, Jwt(t)>> : t \in PresentedTokens}

OtherHeaders ==
  LET tok == Jwt(HeaderToken) IN
  { <<>>,
    <<Word("Bearer")>>,
    <<Word("Bearer"), Space>>,
    <<Word("Bearer"), Space, Word("invalid-token")>>,
    <<Word("Bearer"), tok>>,
    <<Word("Bearer"), Space, Space, tok>>,
    <<Word("Bearer"), Space, tok, Space>>,
    <<Word("Bearer"), Space, tok, Space, Word("x")>>,
    <<Space, Word("Bearer"), Space, tok>>,
    <<Word("Basic"), Space, tok>>,
    <<Word("bearer"), Space, tok>>,
    <<Word("Invalid"), Space, Word("header")>>,
    <<tok>> }

PresentedHeaders == BearerHeaders \cup OtherHeaders

Minted(userId, email, r) ==
  IF r.threw THEN pair
  ELSE [minted |-> TRUE, userId |-> userId, email |-> email, tokens |-> r.value]

TokenCall(record) ==
  /\ last' = record
  /\ UNCHANGED <<now, client, isRedisAvailable, redis, memoryCache, memoryStore,
                 rlConfig, env, written, accepted, scenario, window, sessionIds,
                 cleanupInterval, sweeps, verifiers, emailService>>

CreateToken(userId, email, type) ==
  LET payload == [userId |-> userId, email |-> email, type |-> type] IN
  /\ TokenCall([op |-> "createToken", at |-> now, payload |-> payload,
                result |-> createToken(payload, ACCESS_TOKEN_EXPIRY)])
  /\ UNCHANGED pair

CreateTokenPair(userId, email) ==
  LET r == createTokenPair(userId, email) IN
  /\ TokenCall([op |-> "createTokenPair", at |-> now, userId |-> userId,
                email |-> email, result |-> r])
  /\ pair' = Minted(userId, email, r)

VerifyToken(token) ==
  /\ TokenCall([op |-> "verifyToken", at |-> now, token |-> token,
                result |-> verifyToken(token)])
  /\ UNCHANGED pair

IsAccessToken(token) ==
  /\ TokenCall([op |-> "isAccessToken", at |-> now, token |-> token,
                result |-> isAccessToken(token)])
  /\ UNCHANGED pair

IsRefreshToken(token) ==
  /\ TokenCall([op |-> "isRefreshToken", at |-> now, token |-> token,
                result |-> isRefreshToken(token)])
  /\ UNCHANGED pair

AuthenticateUser(token) ==
  /\ TokenCall([op |-> "authenticateUser", at |-> now, token |-> token,
                result |-> authenticateUser(token)])
  /\ UNCHANGED pair

RefreshAccessToken(token) ==
  LET r == refreshAccessToken(token) IN
  /\ TokenCall([op |-> "refreshAccessToken", at |-> now, token |-> token,
                result |-> r])
  /\ pair' = IF r.threw THEN pair
             ELSE Minted(token.payload.userId, token.payload.email, r)

ExtractTokenFromHeader(authHeader) ==
  \E r \in {extractTokenFromHeader(authHeader)} :
    /\ TokenCall([op |-> "extractTokenFromHeader", at |-> now,
                  header |-> authHeader, result |-> r.result,
                  verified |-> r.verified])
    /\ UNCHANGED pair

TickToken == \E t \in TokenInstants : t > now /\ Advance(t - now, TokenInstants)

InitToken ==
  /\ now = 0
  /\ client = FALSE
  /\ isRedisAvailable = FALSE
  /\ redis = Empty
  /\ memoryCache = Empty
  /\ memoryStore = Empty
  /\ rlConfig = Empty
  /\ env \in Environments
  /\ last = NoCall
  /\ written = [redis |-> Empty, memory |-> Empty]
  /\ accepted = Empty
  /\ scenario = Empty
  /\ window = Empty
  /\ pair = NoPair
  /\ sessionIds = {}
  /\ cleanupInterval = Null
  /\ sweeps = <<>>
  /\ verifiers = Empty
  /\ emailService = NewEmailService

NextToken ==
  \/ \E u \in TokenUserIds, e \in TokenEmails, ty \in {"access", "refresh"} :
       CreateToken(u, e, ty)
  \/ \E u \in TokenUserIds, e \in TokenEmails : CreateTokenPair(u, e)
  \/ \E t \in PresentedTokens : VerifyToken(t)
  \/ \E t \in PresentedTokens : IsAccessToken(t)
  \/ \E t \in PresentedTokens : IsRefreshToken(t)
  \/ \E t \in PresentedTokens : AuthenticateUser(t)
  \/ \E t \in PresentedTokens : RefreshAccessToken(t)
  \/ \E h \in PresentedHeaders : ExtractTokenFromHeader(h)
  \/ TickToken

SpecToken == InitToken /\ [][NextToken]_vars

\* What the claims say of a token, read off the token itself.
ValidlySigned(token) == ~getJWTSecret.threw /\ token.key = JWT_SECRET

Unexpired(token, at) ==
  "exp" \in DOMAIN token.payload => at < token.payload.exp

TypeOf(token) ==
  IF "type" \in DOMAIN token.payload THEN token.payload.type ELSE ""

(***************************************************************************)
(* C3.  Token types are never interchangeable: authenticateUser returns    *)
(* success = false for every validly signed, unexpired refresh token,      *)
(* refreshAccessToken throws for every validly signed, unexpired access    *)
(* token, and isAccessToken and isRefreshToken are never both true for the *)
(* same token.                                                             *)
(***************************************************************************)
C3_TypesNotInterchangeable ==
  /\ ( /\ last.op = "authenticateUser"
       /\ ValidlySigned(last.token)
       /\ Unexpired(last.token, last.at)
       /\ TypeOf(last.token) = "refresh" ) => ~last.result.success
  /\ ( /\ last.op = "refreshAccessToken"
       /\ ValidlySigned(last.token)
       /\ Unexpired(last.token, last.at)
       /\ TypeOf(last.token) = "access" ) => last.result.threw
  /\ (last.op = "isAccessToken" /\ last.at = now /\ last.result)
       => ~isRefreshToken(last.token)
  /\ (last.op = "isRefreshToken" /\ last.at = now /\ last.result)
       => ~isAccessToken(last.token)

C3_Witness ==
  /\ last.op = "authenticateUser"
  /\ pair.minted
  /\ last.token = pair.tokens.refreshToken
  /\ Unexpired(last.token, last.at)
  /\ ~last.result.success
  /\ last.result.error = <<"Invalid token type. Access token required.">>

C3_WitnessRefresh ==
  /\ last.op = "refreshAccessToken"
  /\ ValidlySigned(last.token)
  /\ Unexpired(last.token, last.at)
  /\ TypeOf(last.token) = "access"
  /\ last.result.threw

(***************************************************************************)
(* C10.  Token round trip.  As claimed, for every userId and email:        *)
(* verifyToken applied to the accessToken of createTokenPair(userId,       *)
(* email) returns a payload with that userId, that email and type          *)
(* 'access', and applied to the refreshToken one with type 'refresh'       *)
(* (C10_RoundTripEveryInput).  What holds is the same for every non-empty  *)
(* userId and email and a verifyToken made before the token expires        *)
(* (C10_RoundTrip).                                                        *)
(***************************************************************************)
VerifiedPairToken ==
  /\ last.op = "verifyToken"
  /\ last.token \in PairTokens

ExpectedType ==
  IF last.token = pair.tokens.accessToken THEN "access" ELSE "refresh"

RoundTripHolds ==
  /\ ~last.result.threw
  /\ last.result.value.userId = pair.userId
  /\ last.result.value.email = pair.email
  /\ last.result.value.type = ExpectedType

C10_RoundTrip ==
  ( /\ VerifiedPairToken
    /\ pair.userId # ""
    /\ pair.email # ""
    /\ last.at < last.token.payload.exp ) => RoundTripHolds

C10_RoundTripEveryInput == VerifiedPairToken => RoundTripHolds

C10_Witness ==
  /\ VerifiedPairToken
  /\ last.token = pair.tokens.refreshToken
  /\ last.at >= pair.tokens.accessToken.payload.exp
  /\ last.at < last.token.payload.exp
  /\ RoundTripHolds

(***************************************************************************)
(* RateLimiterService (rate-limiter.ts).  The counter of a key is a        *)
(* decimal string in the store on the Redis-backed path and a record       *)
(* {count, resetTime} in memoryStore on the in-memory path.                *)
(***************************************************************************)
Digits == <<"0", "1", "2", "3", "4", "5", "6", "7", "8", "9">>

RECURSIVE NumberToString(_)
NumberToString(n) ==
  IF n < 10 THEN <<Digits[n + 1]>>
  ELSE NumberToString(n \div 10) \o <<Digits[(n % 10) + 1]>>

DigitValue(c) == (CHOOSE i \in 1..10 : Digits[i] = c) - 1

RECURSIVE ParseInt(_)
ParseInt(str) ==
  IF Len(str) = 1 THEN DigitValue(str[1])
  ELSE ParseInt(SubSeq(str, 1, Len(str) - 1)) * 10 + DigitValue(str[Len(str)])

\* config?.f ?? default
FinalConfig(config) ==
  [maxRequests |-> IF "maxRequests" \in DOMAIN config
                   THEN config.maxRequests ELSE DEFAULT_REFRESH_LIMIT,
   windowSeconds |-> IF "windowSeconds" \in DOMAIN config
                     THEN config.windowSeconds ELSE DEFAULT_REFRESH_WINDOW,
   keyPrefix |-> IF "keyPrefix" \in DOMAIN config
                 THEN config.keyPrefix ELSE RATE_LIMIT_PREFIX]

RateLimitKey(keyPrefix, operation, identifier) ==
  <<keyPrefix, operation, ":", identifier>>

\* "return null to indicate unknown TTL"
getRedisTTL(key) == Null

Exceeded(resetTime) ==
  [allowed |-> FALSE, remaining |-> 0, resetTime |-> resetTime,
   error |-> "Rate limit exceeded"]

Allowed(remaining, resetTime) ==
  [allowed |-> TRUE, remaining |-> remaining, resetTime |-> resetTime]

\* Mutant of checkRedisRateLimit: an increment keeps the expiry the counter
\* already has; only the first request of a window sets it.
checkRedisRateLimit_KeepsExpiry(s, key, config, nowSec, o1, o2) ==
  LET g == Get(s, key, o1)
      count == IF g.value.found THEN ParseInt(g.value.value) ELSE 0
      newCount == count + 1
      left == IF key \in DOMAIN g.s.redis
              THEN (g.s.redis[key].expiresAt \div 1000) - nowSec
              ELSE config.windowSeconds
      w == Set(g.s, key, NumberToString(newCount), left, o2)
  IN  IF g.threw
      THEN [s |-> g.s, threw |-> TRUE, calls |-> <<Call("get", g)>>]
      ELSE IF count >= config.maxRequests
      THEN [s |-> g.s, threw |-> FALSE, calls |-> <<Call("get", g)>>,
            result |-> Exceeded(nowSec + config.windowSeconds)]
      ELSE IF w.threw
      THEN [s |-> w.s, threw |-> TRUE, calls |-> <<Call("get", g), Call("set", w)>>]
      ELSE [s |-> w.s, threw |-> FALSE, calls |-> <<Call("get", g), Call("set", w)>>,
            result |-> Allowed(config.maxRequests - newCount,
                               nowSec + config.windowSeconds)]

checkRedisRateLimit(s, key, config, nowSec, o1, o2) ==
  LET g == Get(s, key, o1)
      count == IF g.value.found THEN ParseInt(g.value.value) ELSE 0
      ttl == getRedisTTL(key)
      newCount == count + 1
      w == Set(g.s, key, NumberToString(newCount), config.windowSeconds, o2)
  IN  IF g.threw
      THEN [s |-> g.s, threw |-> TRUE, calls |-> <<Call("get", g)>>]
      ELSE IF count >= config.maxRequests
      THEN [s |-> g.s, threw |-> FALSE, calls |-> <<Call("get", g)>>,
            result |-> Exceeded(nowSec + (IF ttl.found THEN ttl.value ELSE config.windowSeconds))]
      ELSE IF w.threw
      THEN [s |-> w.s, threw |-> TRUE, calls |-> <<Call("get", g), Call("set", w)>>]
      ELSE [s |-> w.s, threw |-> FALSE, calls |-> <<Call("get", g), Call("set", w)>>,
            result |-> Allowed(config.maxRequests - newCount,
                               nowSec + config.windowSeconds)]

\* Mutant of checkMemoryRateLimit: every allowed request moves resetTime to
\* now + windowSeconds.
checkMemoryRateLimit_Sliding(ms, key, config, nowSec) ==
  IF key \notin DOMAIN ms \/ nowSec > ms[key].resetTime
  THEN [ms |-> With(ms, key, [count |-> 1, resetTime |-> nowSec + config.windowSeconds]),
        result |-> Allowed(config.maxRequests - 1, nowSec + config.windowSeconds)]
  ELSE IF ms[key].count >= config.maxRequests
  THEN [ms |-> ms, result |-> Exceeded(ms[key].resetTime)]
  ELSE [ms |-> [ms EXCEPT ![key] = [count |-> @.count + 1,
                                    resetTime |-> nowSec + config.windowSeconds]],
        result |-> Allowed(config.maxRequests - (ms[key].count + 1),
                           nowSec + config.windowSeconds)]

checkMemoryRateLimit(ms, key, config, nowSec) ==
  IF key \notin DOMAIN ms \/ nowSec > ms[key].resetTime
  THEN [ms |-> With(ms, key, [count |-> 1, resetTime |-> nowSec + config.windowSeconds]),
        result |-> Allowed(config.maxRequests - 1, nowSec + config.windowSeconds)]
  ELSE IF ms[key].count >= config.maxRequests
  THEN [ms |-> ms, result |-> Exceeded(ms[key].resetTime)]
  ELSE [ms |-> [ms EXCEPT ![key].count = @ + 1],
        result |-> Allowed(config.maxRequests - (ms[key].count + 1), ms[key].resetTime)]

\* Mutant of checkRateLimit: a check that throws denies the request.
checkRateLimit_FailClosed(s, ms, identifier, operation, config, o1, o2) ==
  LET finalConfig == FinalConfig(config)
      key == RateLimitKey(finalConfig.keyPrefix, operation, identifier)
      r == checkRedisRateLimit(s, key, finalConfig, now, o1, o2)
      m == checkMemoryRateLimit(ms, key, finalConfig, now)
  IN  IF IsConnected(s)
      THEN [s |-> r.s, ms |-> ms, path |-> "redis", threw |-> FALSE, calls |-> r.calls,
            result |-> IF r.threw
                       THEN Exceeded(now + finalConfig.windowSeconds)
                       ELSE r.result]
      ELSE [s |-> s, ms |-> m.ms, path |-> "memory", threw |-> FALSE, calls |-> <<>>,
            result |-> m.result]

checkRateLimit(s, ms, identifier, operation, config, o1, o2) ==
  LET finalConfig == FinalConfig(config)
      key == RateLimitKey(finalConfig.keyPrefix, operation, identifier)
      r == checkRedisRateLimit(s, key, finalConfig, now, o1, o2)
      m == checkMemoryRateLimit(ms, key, finalConfig, now)
  IN  IF IsConnected(s)
      THEN [s |-> r.s, ms |-> ms, path |-> "redis", threw |-> FALSE, calls |-> r.calls,
            result |-> IF r.threw
                       THEN Allowed(finalConfig.maxRequests,
                                    now + finalConfig.windowSeconds)
                       ELSE r.result]
      ELSE [s |-> s, ms |-> m.ms, path |-> "memory", threw |-> FALSE, calls |-> <<>>,
            result |-> m.result]

resetRateLimit(s, ms, identifier, operation, o) ==
  LET key == RateLimitKey(RATE_LIMIT_PREFIX, operation, identifier)
      d == Delete(s, key, o)
  IN  IF IsConnected(s)
      THEN [s |-> d.s, ms |-> ms, threw |-> FALSE, calls |-> <<Call("delete", d)>>]
      ELSE [s |-> s, ms |-> Without(ms, key), threw |-> FALSE, calls |-> <<>>]

(***************************************************************************)
(* SpecRL: checkRateLimit and resetRateLimit for one configuration, with   *)
(* the remote failures and connection events of the store.  window[key]    *)
(* follows the fixed window of the calls for key while one path serves     *)
(* them all: the window opens at the first call and ends when the          *)
(* resetTime that call returned has passed.  The history is dropped        *)
(* ("void") when the path changes, a store call falls back, or the counter *)
(* is reset.                                                               *)
(***************************************************************************)
MaxTicksRL == 2
MaxTicksRLFault == 1
MaxRequests == 2

RLIdentifiers == {"u"}
RLOperations == {"op"}

RLConfig == [maxRequests |-> MaxRequests]

RLKey(identifier, operation) ==
  RateLimitKey(FinalConfig(rlConfig).keyPrefix, operation, identifier)

RLKeys == {RLKey(i, op) : i \in RLIdentifiers, op \in RLOperations}

Fresh == [phase |-> "fresh"]
Void == [phase |-> "void"]

OnePath(r) ==
  \A i \in DOMAIN r.calls : r.calls[i].served = r.path /\ ~r.calls[i].threw

AfterCheck(w, r) ==
  LET config == FinalConfig(rlConfig)
      opened == [phase |-> "open", path |-> r.path, start |-> now, n |-> 1,
                 afterExpiry |-> (w.phase = "open"), result |-> r.result]
  IN  IF w.phase = "void" \/ ~OnePath(r) THEN Void
      ELSE IF w.phase = "fresh" THEN opened
      ELSE IF w.path # r.path THEN Void
      ELSE IF now > w.start + config.windowSeconds THEN opened
      ELSE [w EXCEPT !.n = IF @ <= config.maxRequests THEN @ + 1 ELSE @,
                     !.result = r.result]

\* The counter of key in the current window as the backend of a path holds
\* it: the decimal string in the remote cache, or the count of the memory
\* entry while its resetTime has not passed; 0 when there is none.
StoredCount(path, s, ms, key) ==
  IF path = "redis"
  THEN LET v == RemoteGet(s.redis, key) IN IF v.found THEN ParseInt(v.value) ELSE 0
  ELSE IF key \in DOMAIN ms /\ ~(now > ms[key].resetTime) THEN ms[key].count ELSE 0

CheckRateLimit(identifier, operation, o1, o2) ==
  \E r \in {checkRateLimit(Store, memoryStore, identifier, operation, rlConfig, o1, o2)} :
  LET key == RLKey(identifier, operation)
  IN  /\ PutStore(r.s)
      /\ memoryStore' = r.ms
      /\ last' = [op |-> "checkRateLimit", at |-> now, key |-> key, path |-> r.path,
                  threw |-> r.threw, calls |-> r.calls, result |-> r.result,
                  onePath |-> OnePath(r),
                  before |-> StoredCount(r.path, Store, memoryStore, key),
                  after |-> StoredCount(r.path, r.s, r.ms, key)]
      /\ window' = IF key \in DOMAIN window
                   THEN [window EXCEPT ![key] = AfterCheck(@, r)]
                   ELSE window
      /\ UNCHANGED <<now, rlConfig, env, written, accepted, scenario, pair, sessionIds,
                 cleanupInterval, sweeps, verifiers, emailService>>

ResetRateLimit(identifier, operation, o) ==
  \E r \in {resetRateLimit(Store, memoryStore, identifier, operation, o)} :
  LET key == RLKey(identifier, operation)
  IN  /\ PutStore(r.s)
      /\ memoryStore' = r.ms
      /\ last' = [op |-> "resetRateLimit", at |-> now, key |-> key,
                  identifier |-> identifier, operation |-> operation,
                  threw |-> r.threw, calls |-> r.calls]
      /\ window' = IF key \in DOMAIN window
                   THEN [window EXCEPT ![key] = Void]
                   ELSE window
      /\ UNCHANGED <<now, rlConfig, env, written, accepted, scenario, pair, sessionIds,
                 cleanupInterval, sweeps, verifiers, emailService>>

RLInstants(k) == Instants(FinalConfig(RLConfig).windowSeconds, k)

TickRL(k) == \E t \in RLInstants(k) : t > now /\ Advance(t - now, RLInstants(k))

InitRLWith(w) ==
  /\ InitStore
  /\ memoryStore = Empty
  /\ rlConfig = RLConfig
  /\ env = DevEnv
  /\ last = NoCall
  /\ written = [redis |-> Empty, memory |-> Empty]
  /\ accepted = Empty
  /\ scenario = Empty
  /\ window = w
  /\ pair = NoPair
  /\ sessionIds = {}
  /\ cleanupInterval = Null
  /\ sweeps = <<>>
  /\ verifiers = Empty
  /\ emailService = NewEmailService

InitRL == InitRLWith([k \in RLKeys |-> Fresh])
InitRLFault == InitRLWith(Empty)

RLCalls(outs) ==
  \/ \E i \in RLIdentifiers, op \in RLOperations, o1 \in outs, o2 \in outs :
       CheckRateLimit(i, op, o1, o2)
  \/ \E i \in RLIdentifiers, op \in RLOperations, o \in outs :
       ResetRateLimit(i, op, o)

RLEnvironment(k) ==
  \/ TickRL(k)
  \/ RedisError
  \/ RedisConnect
  \/ MemoryCacheCleanup

NextRL == RLCalls(Outcomes) \/ RLEnvironment(MaxTicksRL)

SpecRL == InitRL /\ [][NextRL]_vars

NextRLFault == RLCalls(FaultOutcomes) \/ RLEnvironment(MaxTicksRLFault)

SpecRLFault == InitRLFault /\ [][NextRLFault]_vars

\* SpecRLLimits: the same calls under every limit from 0 to MaxRequests,
\* under a configuration with a key prefix of its own, and under one with a
\* window of 0 seconds.
CUSTOM_PREFIX == "custom:"

RLConfigs ==
  {[maxRequests |-> n] : n \in 0..MaxRequests}
    \cup {[maxRequests |-> MaxRequests, keyPrefix |-> CUSTOM_PREFIX],
          [maxRequests |-> MaxRequests, windowSeconds |-> 0]}

InitRLLimits ==
  /\ InitStore
  /\ memoryStore = Empty
  /\ rlConfig \in RLConfigs
  /\ env = DevEnv
  /\ last = NoCall
  /\ written = [redis |-> Empty, memory |-> Empty]
  /\ accepted = Empty
  /\ scenario = Empty
  /\ window = Empty
  /\ pair = NoPair
  /\ sessionIds = {}
  /\ cleanupInterval = Null
  /\ sweeps = <<>>
  /\ verifiers = Empty
  /\ emailService = NewEmailService

NextRLLimits == RLCalls(Outcomes) \/ RLEnvironment(MaxTicksRLFault)

SpecRLLimits == InitRLLimits /\ [][NextRLLimits]_vars

(***************************************************************************)
(* C4.  For a fixed key and maxRequests = N >= 1, the calls of one window  *)
(* are allowed up to the Nth, call N+1 is denied with remaining = 0, and   *)
(* the first call after the window has expired is allowed again, on the    *)
(* Redis-backed path and on the in-memory path.                            *)
(***************************************************************************)
C4_WindowLimit ==
  \A k \in DOMAIN window :
    LET w == window[k]
        N == FinalConfig(rlConfig).maxRequests
    IN  w.phase = "open" =>
          /\ w.n <= N => w.result.allowed
          /\ w.n = N + 1 => ~w.result.allowed /\ w.result.remaining = 0

(***************************************************************************)
(* C8.  checkRateLimit fails open: when a step of the check throws, the    *)
(* call returns allowed = true with remaining = maxRequests and resetTime  *)
(* = now + windowSeconds; it neither throws nor returns allowed = false.   *)
(***************************************************************************)
CheckStepThrew ==
  /\ last.op = "checkRateLimit"
  /\ \E i \in DOMAIN last.calls : last.calls[i].threw

C8_FailsOpen ==
  CheckStepThrew =>
    /\ ~last.threw
    /\ last.result.allowed
    /\ last.result.remaining = FinalConfig(rlConfig).maxRequests
    /\ last.result.resetTime = last.at + FinalConfig(rlConfig).windowSeconds

C8_Witness ==
  /\ CheckStepThrew
  /\ Len(last.calls) = 2
  /\ last.calls[1].served = "redis"
  /\ last.calls[2].threw
  /\ last.at > 0
  /\ last.result.allowed
  /\ last.result.remaining = MaxRequests

(***************************************************************************)
(* SessionService (session.ts).  A session record is kept as the JSON text *)
(* of its SessionData: the sequence of the name/value pairs of the fields  *)
(* that are defined, in declaration order.                                 *)
(***************************************************************************)
SessionFields == <<"userId", "email", "createdAt", "lastAccessed", "userAgent", "ipAddress">>

JSONStringify(data) ==
  LET present(f) == f \in DOMAIN data
      names == SelectSeq(SessionFields, present)
  IN  [i \in DOMAIN names |-> <<names[i], data[names[i]]>>]

JSONParse(text) ==
  [f \in {text[i][1] : i \in DOMAIN text} |->
     (CHOOSE p \in {text[i] : i \in DOMAIN text} : p[1] = f)[2]]

\* `${timestamp}-${random}`, the timestamp written out in digits.
generateSessionId(random) == NumberToString(DateNow) \o <<"-", random>>

SessionKey(sessionId) == <<SESSION_PREFIX>> \o sessionId

createSession(s, userId, email, random, o) ==
  LET sessionId == generateSessionId(random)
      sessionData == [userId |-> userId, email |-> email,
                      createdAt |-> DateNow, lastAccessed |-> DateNow]
      w == Set(s, SessionKey(sessionId), JSONStringify(sessionData),
               SESSION_EXPIRY_SECONDS, o)
  IN  [s |-> w.s, sessionId |-> sessionId, threw |-> w.threw,
       calls |-> <<Call("set", w)>>]

NotFound == [success |-> FALSE, error |-> "Session not found or expired"]
ValidationFailed == [success |-> FALSE, error |-> "Session validation failed"]

\* Mutant of validateSession: the record is returned without being touched.
validateSession_ReadOnly(s, sessionId, o1, o2) ==
  LET g == Get(s, SessionKey(sessionId), o1) IN
  IF g.threw
  THEN [s |-> g.s, result |-> ValidationFailed, calls |-> <<Call("get", g)>>]
  ELSE IF ~g.value.found
  THEN [s |-> g.s, result |-> NotFound, calls |-> <<Call("get", g)>>]
  ELSE [s |-> g.s, result |-> [success |-> TRUE, session |-> JSONParse(g.value.value)],
        calls |-> <<Call("get", g)>>]

\* Mutant of validateSession: every failure is reported as a missing session.
validateSession_AlwaysNotFound(s, sessionId, o1, o2) ==
  LET key == SessionKey(sessionId)
      g == Get(s, key, o1)
      sessionData == [JSONParse(g.value.value) EXCEPT !.lastAccessed = DateNow]
      w == Set(g.s, key, JSONStringify(sessionData), SESSION_EXPIRY_SECONDS, o2)
  IN  IF g.threw \/ ~g.value.found
      THEN [s |-> g.s, result |-> NotFound, calls |-> <<Call("get", g)>>]
      ELSE IF w.threw
      THEN [s |-> w.s, result |-> NotFound,
            calls |-> <<Call("get", g), Call("set", w)>>]
      ELSE [s |-> w.s, result |-> [success |-> TRUE, session |-> sessionData],
            calls |-> <<Call("get", g), Call("set", w)>>]

validateSession(s, sessionId, o1, o2) ==
  LET key == SessionKey(sessionId)
      g == Get(s, key, o1)
      sessionData == [JSONParse(g.value.value) EXCEPT !.lastAccessed = DateNow]
      w == Set(g.s, key, JSONStringify(sessionData), SESSION_EXPIRY_SECONDS, o2)
  IN  IF g.threw
      THEN [s |-> g.s, result |-> ValidationFailed, calls |-> <<Call("get", g)>>]
      ELSE IF ~g.value.found
      THEN [s |-> g.s, result |-> NotFound, calls |-> <<Call("get", g)>>]
      ELSE IF w.threw
      THEN [s |-> w.s, result |-> ValidationFailed,
            calls |-> <<Call("get", g), Call("set", w)>>]
      ELSE [s |-> w.s, result |-> [success |-> TRUE, session |-> sessionData],
            calls |-> <<Call("get", g), Call("set", w)>>]

refreshSession(s, sessionId, o1, o2, o3) ==
  LET v == validateSession(s, sessionId, o1, o2)
      session == [v.result.session EXCEPT !.lastAccessed = DateNow]
      w == Set(v.s, SessionKey(sessionId), JSONStringify(session),
               SESSION_EXPIRY_SECONDS, o3)
  IN  IF ~v.result.success THEN v
      ELSE IF w.threw
      THEN [s |-> w.s, result |-> [success |-> FALSE, error |-> "Failed to refresh session"],
            calls |-> v.calls \o <<Call("set", w)>>]
      ELSE [s |-> w.s, result |-> [success |-> TRUE, session |-> session],
            calls |-> v.calls \o <<Call("set", w)>>]

deleteSession(s, sessionId, o) ==
  LET d == Delete(s, SessionKey(sessionId), o) IN
  [s |-> d.s, threw |-> FALSE, calls |-> <<Call("delete", d)>>]

(***************************************************************************)
(* SpecSession: sessions created, validated, refreshed and deleted, with   *)
(* the remote failures and connection events of the store.  A call is      *)
(* made with an id createSession handed out or with an id it never did.    *)
(***************************************************************************)
MaxTicksSession == 1

SessionUsers == {[userId |-> "u1", email |-> "a@b.com"],
                 [userId |-> "u2", email |-> "c@d.com"]}
\* The suffixes Math.random() yields; no two sessions get the same one.
SessionRandoms == {"r1"}
UnknownSessionId == <<"0", "-", "r0">>

PresentedSessionIds == sessionIds \cup {UnknownSessionId}

\* The record under key in the backend named by served, if it has one.
RecordIn(s, served, key) ==
  LET m == IF served = "redis" THEN s.redis ELSE s.mem IN
  IF key \in DOMAIN m THEN Some(m[key]) ELSE Null

\* Some record was created or given another value or expiry.
Wrote(pre, post) ==
  \/ post.redis # pre.redis
  \/ \E k \in DOMAIN post.mem : k \notin DOMAIN pre.mem \/ post.mem[k] # pre.mem[k]

SessionFrame ==
  UNCHANGED <<now, memoryStore, rlConfig, env, written, accepted, scenario, window, pair,
              cleanupInterval, sweeps, verifiers, emailService>>

CreateSession(user, random, o) ==
  \E r \in {createSession(Store, user.userId, user.email, random, o)} :
  /\ \A id \in sessionIds : id[Len(id)] # random
  /\ PutStore(r.s)
  /\ sessionIds' = IF r.threw THEN sessionIds ELSE sessionIds \cup {r.sessionId}
  /\ last' = [op |-> "createSession", at |-> now, id |-> r.sessionId,
              threw |-> r.threw, calls |-> r.calls]
  /\ SessionFrame

ValidateSession(sessionId, o1, o2) ==
  \E r \in {validateSession(Store, sessionId, o1, o2)} :
  LET key == SessionKey(sessionId)
      g == Get(Store, key, o1)
  IN  /\ PutStore(r.s)
      /\ last' = [op |-> "validateSession", at |-> now, id |-> sessionId,
                  found |-> g.value, result |-> r.result, calls |-> r.calls,
                  wrote |-> Wrote(Store, r.s),
                  persisted |-> IF Len(r.calls) = 2
                                THEN RecordIn(r.s, r.calls[2].served, key)
                                ELSE Null]
      /\ UNCHANGED sessionIds
      /\ SessionFrame

RefreshSession(sessionId, o1, o2, o3) ==
  \E r \in {refreshSession(Store, sessionId, o1, o2, o3)} :
  /\ PutStore(r.s)
  /\ last' = [op |-> "refreshSession", at |-> now, id |-> sessionId,
              result |-> r.result, calls |-> r.calls]
  /\ UNCHANGED sessionIds
  /\ SessionFrame

DeleteSession(sessionId, o) ==
  \E r \in {deleteSession(Store, sessionId, o)} :
  /\ PutStore(r.s)
  /\ last' = [op |-> "deleteSession", at |-> now, id |-> sessionId,
              threw |-> r.threw, calls |-> r.calls]
  /\ UNCHANGED sessionIds
  /\ SessionFrame

SessionInstants == Instants(SESSION_EXPIRY_SECONDS, MaxTicksSession)

TickSession == \E t \in SessionInstants : t > now /\ Advance(t - now, SessionInstants)

InitSession == InitStore /\ InitRest

NextSession ==
  \/ \E u \in SessionUsers, x \in SessionRandoms, o \in Outcomes : CreateSession(u, x, o)
  \/ \E i \in PresentedSessionIds, o1 \in Outcomes, o2 \in Outcomes :
       ValidateSession(i, o1, o2)
  \/ \E i \in PresentedSessionIds, o1 \in Outcomes, o2 \in Outcomes, o3 \in Outcomes :
       RefreshSession(i, o1, o2, o3)
  \/ \E i \in PresentedSessionIds, o \in Outcomes : DeleteSession(i, o)
  \/ TickSession
  \/ RedisError
  \/ RedisConnect
  \/ MemoryCacheCleanup

SpecSession == InitSession /\ [][NextSession]_vars

(***************************************************************************)
(* C9.  validateSession on an id for which the store returns no record     *)
(* returns success = false with error 'Session not found or expired' and   *)
(* writes nothing; on an id for which it returns a record, the record is   *)
(* persisted again with lastAccessed = now and the full session TTL        *)
(* (expiry at now + SESSION_EXPIRY_SECONDS), and the call returns success  *)
(* = true with the userId and email of the record.                         *)
(***************************************************************************)
C9_ValidateSession ==
  last.op = "validateSession" =>
    IF ~last.found.found
    THEN /\ last.result = NotFound
         /\ ~last.wrote
         /\ Len(last.calls) = 1
    ELSE LET before == JSONParse(last.found.value)
             after == JSONParse(last.persisted.value.value)
         IN  /\ last.persisted.found
             /\ after.lastAccessed = last.at * 1000
             /\ after = [before EXCEPT !.lastAccessed = last.at * 1000]
             /\ last.persisted.value.expiresAt
                  = (last.at + SESSION_EXPIRY_SECONDS) * 1000
             /\ last.result.success
             /\ last.result.session.userId = before.userId
             /\ last.result.session.email = before.email
             /\ last.result.session.lastAccessed = last.at * 1000

C9_Witness ==
  /\ last.op = "validateSession"
  /\ last.found.found
  /\ JSONParse(last.found.value).createdAt < last.at * 1000
  /\ last.result.success
  /\ last.result.session.userId = "u2"

C9_WitnessNotFound ==
  /\ last.op = "validateSession"
  /\ last.id \in sessionIds
  /\ ~last.found.found
  /\ last.result = NotFound
(***************************************************************************)
(* C11.  refreshAccessToken(t) succeeds only when t is a validly signed,   *)
(* unexpired token of type 'refresh', and then returns a fresh pair whose  *)
(* access and refresh tokens both carry the userId and email of t; for an  *)
(* access token (one verifyToken accepts) it throws, and the message ends  *)
(* with 'Invalid token type. Refresh token required.'.                     *)
(***************************************************************************)
Refreshed == last.op = "refreshAccessToken" /\ ~last.result.threw

CarriesIdentity(token, type, of) ==
  /\ token.payload.userId = of.payload.userId
  /\ token.payload.email = of.payload.email
  /\ token.payload.type = type
  /\ token.key = JWT_SECRET

FreshPair(tokens, at) ==
  /\ tokens.accessToken.payload.iat = at
  /\ tokens.accessToken.payload.exp = at + ACCESS_TOKEN_EXPIRY
  /\ tokens.refreshToken.payload.iat = at
  /\ tokens.refreshToken.payload.exp = at + REFRESH_TOKEN_EXPIRY

AcceptedAccessToken(token, at) ==
  /\ ValidlySigned(token)
  /\ Unexpired(token, at)
  /\ TypeOf(token) = "access"
  /\ ~Falsy(token.payload, "userId")
  /\ ~Falsy(token.payload, "email")
  /\ "nbf" \notin DOMAIN token.payload

C11_RefreshAccessToken ==
  /\ Refreshed =>
       /\ ValidlySigned(last.token)
       /\ Unexpired(last.token, last.at)
       /\ TypeOf(last.token) = "refresh"
       /\ CarriesIdentity(last.result.value.accessToken, "access", last.token)
       /\ CarriesIdentity(last.result.value.refreshToken, "refresh", last.token)
       /\ FreshPair(last.result.value, last.at)
  /\ (last.op = "refreshAccessToken" /\ AcceptedAccessToken(last.token, last.at))
       => /\ last.result.threw
          /\ last.result.message =
               <<"Failed to refresh access token: ",
                 "Invalid token type. Refresh token required.">>

\* An old refresh token is exchanged after the clock moved: the new pair is
\* issued at the time of the call, not at the time of the old token.
C11_Witness ==
  /\ Refreshed
  /\ last.at > last.token.payload.iat
  /\ last.result.value.refreshToken.payload.exp > last.token.payload.exp
  /\ CarriesIdentity(last.result.value.accessToken, "access", last.token)

C11_WitnessAccess ==
  /\ last.op = "refreshAccessToken"
  /\ AcceptedAccessToken(last.token, last.at)
  /\ last.result.threw
(***************************************************************************)
(* C12.  If the signing secret is absent or shorter than 32 characters,    *)
(* createToken, createTokenPair and verifyToken all throw, so no token is  *)
(* produced or accepted; with a secret of 32 or more characters creation   *)
(* succeeds.  env.secretLen is the length of the secret the environment's  *)
(* secret source holds under JWT_SECRET, 0 when it holds none.             *)
(***************************************************************************)
SecretTooShort == env.secretLen < MIN_SECRET_LENGTH

C12_ShortSecretThrows ==
  ( /\ SecretTooShort
    /\ last.op \in {"createToken", "createTokenPair", "verifyToken"} )
    => last.result.threw

C12_LongSecretCreates ==
  ( /\ ~SecretTooShort
    /\ last.op \in {"createToken", "createTokenPair"} )
    => ~last.result.threw

C12_SecretLength == C12_ShortSecretThrows /\ C12_LongSecretCreates
(***************************************************************************)
(* C13.  Every failure of a remote operation issued by the key-value store *)
(* (get, set, delete, getTTL, scanKeys) leaves the store disconnected      *)
(* (isConnected() is false when the call returns), and every call made     *)
(* while the store is disconnected is served from the memory map without   *)
(* a remote call.  last.wasConnected and last.connected are isConnected()  *)
(* as the call starts and as it returns.                                   *)
(***************************************************************************)
KvCall == last.op \in {"get", "set", "delete", "getTTL", "scanKeys"}

C13_FailureDisconnectsExceptDelete ==
  (KvCall /\ last.op # "delete" /\ last.remoteThrew) => ~last.connected

C13_DisconnectedServedFromMemory ==
  (KvCall /\ ~last.wasConnected) =>
    /\ last.served = "memory"
    /\ ~last.remoteThrew
    /\ ~last.connected

C13_FailureDisconnects ==
  /\ (KvCall /\ last.remoteThrew) => ~last.connected
  /\ C13_DisconnectedServedFromMemory
(***************************************************************************)
(* C14.  For every key set and every pattern containing '*' wildcards,     *)
(* scanKeys on the in-memory fallback returns exactly the keys that the    *)
(* remote backend's glob MATCH would return for the same live key set: the *)
(* pattern must match the whole key, '*' standing for any run of symbols.  *)
(***************************************************************************)
HasWildcard(pattern) == \E i \in 1..Len(pattern) : pattern[i] = "*"

MemoryScanJustReturned ==
  /\ last.op = "scanKeys"
  /\ last.at = now
  /\ last.served = "memory"
  /\ HasWildcard(last.pattern)

\* What SCAN MATCH returns when the remote cache holds the memory map's keys.
GlobScanOfMemory(pattern) == RemoteScan(memoryCache, pattern)

C14_ScanEquivalence ==
  MemoryScanJustReturned => last.keys = GlobScanOfMemory(last.pattern)

\* The part that holds: every key the glob matches is returned.
C14_MemoryScanIncludesGlob ==
  MemoryScanJustReturned => GlobScanOfMemory(last.pattern) \subseteq last.keys
(***************************************************************************)
(* C15.  At most one live OTP per identifier: after storeOTP(id, a)        *)
(* followed by storeOTP(id, b) with a # b, no later verifyOTP(id, a)       *)
(* returns true, whatever remote failures and reconnections occur between  *)
(* the calls.  accepted[id].code is the code of the last storeOTP for id;  *)
(* a verifyOTP that returns true for another code accepted a replaced one. *)
(***************************************************************************)
VerifiedTrue ==
  /\ last.op = "verifyOTP"
  /\ last.result
  /\ last.id \in DOMAIN accepted
  /\ accepted[last.id].code # ""

C15_OneLiveOTP == VerifiedTrue => last.otp = accepted[last.id].code
(***************************************************************************)
(* C16.  For every configured maxRequests (0 included) and on both         *)
(* backends: checkRateLimit returns allowed = true if and only if the      *)
(* counter of the key in the current window is below maxRequests before    *)
(* the call; an allowed call increments the counter by exactly one, a      *)
(* denied call leaves it unchanged, and the counter never exceeds          *)
(* maxRequests after a call that returned allowed = true.  Stated of the   *)
(* calls one backend served without a fallback.                            *)
(***************************************************************************)
CheckedOnOnePath == last.op = "checkRateLimit" /\ last.onePath

CounterLaw(N) ==
  /\ last.result.allowed <=> last.before < N
  /\ last.result.allowed => (last.after = last.before + 1 /\ last.after <= N)
  /\ ~last.result.allowed => last.after = last.before

C16_CounterBelowLimit ==
  CheckedOnOnePath => CounterLaw(FinalConfig(rlConfig).maxRequests)

\* The same law for the limits above 0.
C16_PositiveLimit ==
  (CheckedOnOnePath /\ FinalConfig(rlConfig).maxRequests > 0)
    => CounterLaw(FinalConfig(rlConfig).maxRequests)
(***************************************************************************)
(* C17.  storeOTP(id, code) throws 'Failed to store OTP' whenever the      *)
(* underlying write of the code fails, the case where the remote write of  *)
(* the key-value store fails included; so a storeOTP that returns normally *)
(* implies that the code is stored and that a verifyOTP(id, code) which    *)
(* follows within the expiry returns true.                                 *)
(***************************************************************************)
StoreWriteFailed ==
  /\ last.op = "storeOTP"
  /\ (last.remoteThrew \/ last.calls[1].threw)

StoreReturned ==
  /\ last.op = "storeOTP"
  /\ ~last.threw
  /\ now < last.at + OTP_EXPIRY_SECONDS

C17_WriteFailureThrows == StoreWriteFailed => last.threw

C17_StoredWhenReturned ==
  StoreReturned => verifyOTP(Store, last.id, last.otp, "ok", "ok").result

C17_WitnessThrew ==
  /\ last.op = "storeOTP"
  /\ last.threw
  /\ last.message = <<"Failed to store OTP">>
(***************************************************************************)
(* SpecContracts: the session and the OTP calls on one store whose calls   *)
(* may reject, with the connection events and one step of the clock past   *)
(* every expiry.                                                           *)
(***************************************************************************)
ContractInstants == Instants(SESSION_EXPIRY_SECONDS, 0)

TickContracts ==
  \E t \in ContractInstants : t > now /\ Advance(t - now, ContractInstants)

InitContracts == InitStore /\ InitRest

NextContracts ==
  \/ \E i \in OTPIds, c \in OTPCodes, o \in FaultOutcomes : StoreOTP(i, c, o)
  \/ \E i \in OTPIds, c \in OTPCodes, o1 \in FaultOutcomes, o2 \in FaultOutcomes :
       VerifyOTP(i, c, o1, o2)
  \/ \E u \in SessionUsers, x \in SessionRandoms, o \in FaultOutcomes :
       CreateSession(u, x, o)
  \/ \E i \in PresentedSessionIds, o1 \in FaultOutcomes, o2 \in FaultOutcomes :
       ValidateSession(i, o1, o2)
  \/ TickContracts
  \/ RedisError
  \/ RedisConnect
  \/ MemoryCacheCleanup

SpecContracts == InitContracts /\ [][NextContracts]_vars

(***************************************************************************)
(* C18.  In the Session and the OTP contracts the outcome for a missing    *)
(* record is distinguishable from the outcome for a store that threw:      *)
(* validateSession returns error 'Session not found or expired' versus     *)
(* 'Session validation failed', and verifyOTP gives a different result for *)
(* 'not found' than for a read error (C18_Distinguishable).  What holds    *)
(* (C18_SessionOnlyDistinguishes): validateSession distinguishes the two;  *)
(* verifyOTP returns false, without throwing, in both.                     *)
(***************************************************************************)
EmptyStore == [avail |-> FALSE, redis |-> Empty, mem |-> Empty]

ReadThrew(op) ==
  /\ last.op = op
  /\ last.calls[1].threw

RecordMissing(op) ==
  /\ last.op = op
  /\ ~last.calls[1].threw
  /\ ~last.found.found

SessionMissing == validateSession(EmptyStore, UnknownSessionId, "ok", "ok").result

OTPOutcome(r) == [result |-> r.result, threw |-> r.threw]

OTPMissing == OTPOutcome(verifyOTP(EmptyStore, OTPUser, "123456", "ok", "ok"))

C18_Distinguishable ==
  /\ ReadThrew("validateSession") => last.result # SessionMissing
  /\ ReadThrew("verifyOTP") => OTPOutcome(last) # OTPMissing

C18_SessionOnlyDistinguishes ==
  /\ ReadThrew("validateSession") =>
       /\ last.result = [success |-> FALSE, error |-> "Session validation failed"]
       /\ last.result # SessionMissing
  /\ RecordMissing("validateSession") =>
       /\ last.result = [success |-> FALSE, error |-> "Session not found or expired"]
       /\ last.result = SessionMissing
  /\ (ReadThrew("verifyOTP") \/ RecordMissing("verifyOTP")) =>
       /\ OTPOutcome(last) = [result |-> FALSE, threw |-> FALSE]
       /\ OTPOutcome(last) = OTPMissing

\* A session that exists is validated while the read rejects.
C18_Witness ==
  /\ ReadThrew("validateSession")
  /\ last.id \in sessionIds
  /\ last.result.error = "Session validation failed"

C18_WitnessOTP ==
  /\ ReadThrew("verifyOTP")
  /\ \/ OtpKey(last.id) \in DOMAIN redis
     \/ OtpKey(last.id) \in DOMAIN memoryCache
  /\ ~last.result
(***************************************************************************)
(* SessionService.cleanupExpiredSessions.  The keys of the session scan    *)
(* are visited in the order the scan returned them; every visit is kept as *)
(* a record of what the store answered and what the visit did.             *)
(***************************************************************************)
\* getAllSessionKeys: a scan that throws gives no keys.
getAllSessionKeys(s, o) ==
  LET r == ScanKeys(s, <<SESSION_PREFIX, "*">>, o) IN
  [s |-> r.s, keys |-> IF r.threw THEN {} ELSE r.keys, calls |-> <<Call("scanKeys", r)>>]

CleanupError(key) ==
  <<"Failed to cleanup session ">> \o key \o <<": ", "error.message">>

Visit(s, key, found, calls, deleted, error) ==
  [s |-> s,
   visit |-> [key |-> key, found |-> found, calls |-> calls,
              deleted |-> deleted, error |-> error]]

\* Mutant of CleanupKey: a key whose value is gone is passed over.
CleanupKey_SkipsGone(s, key, o1, o2) ==
  LET g == Get(s, key, o1)
      d == Delete(g.s, key, o2)
      sessionAge == DateNow - JSONParse(g.value.value).lastAccessed
  IN  IF g.threw
      THEN Visit(g.s, key, Null, <<Call("get", g)>>, FALSE, Some(CleanupError(key)))
      ELSE IF ~g.value.found
      THEN Visit(g.s, key, g.value, <<Call("get", g)>>, FALSE, Null)
      ELSE IF sessionAge > SESSION_EXPIRY_SECONDS * 1000
      THEN IF d.threw
           THEN Visit(d.s, key, g.value, <<Call("get", g), Call("delete", d)>>,
                      FALSE, Some(CleanupError(key)))
           ELSE Visit(d.s, key, g.value, <<Call("get", g), Call("delete", d)>>,
                      TRUE, Null)
      ELSE Visit(g.s, key, g.value, <<Call("get", g)>>, FALSE, Null)

\* The body of the for loop, for one key.
CleanupKey(s, key, o1, o2) ==
  LET g == Get(s, key, o1)
      d == Delete(g.s, key, o2)
      sessionAge == DateNow - JSONParse(g.value.value).lastAccessed
  IN  IF g.threw
      THEN Visit(g.s, key, Null, <<Call("get", g)>>, FALSE, Some(CleanupError(key)))
      ELSE IF ~g.value.found \/ sessionAge > SESSION_EXPIRY_SECONDS * 1000
      THEN IF d.threw
           THEN Visit(d.s, key, g.value, <<Call("get", g), Call("delete", d)>>,
                      FALSE, Some(CleanupError(key)))
           ELSE Visit(d.s, key, g.value, <<Call("get", g), Call("delete", d)>>,
                      TRUE, Null)
      ELSE Visit(g.s, key, g.value, <<Call("get", g)>>, FALSE, Null)

RECURSIVE CleanupKeys(_, _, _)
CleanupKeys(s, sessionKeys, outs) ==
  IF sessionKeys = <<>> THEN [s |-> s, visits |-> <<>>]
  ELSE LET key == Head(sessionKeys)
           v == CleanupKey(s, key, outs[key][1], outs[key][2])
           rest == CleanupKeys(v.s, Tail(sessionKeys), outs)
       IN  [s |-> rest.s, visits |-> <<v.visit>> \o rest.visits]

Deleted(visit) == visit.deleted
Failed(visit) == visit.error.found

cleanupExpiredSessions(s, sessionKeys, scan, outs) ==
  LET r == CleanupKeys(scan.s, sessionKeys, outs)
      failures == SelectSeq(r.visits, Failed)
  IN  [s |-> r.s, threw |-> FALSE, visits |-> r.visits,
       result |-> [sessionsDeleted |-> Len(SelectSeq(r.visits, Deleted)),
                   errors |-> [i \in DOMAIN failures |-> failures[i].error.value]]]

\* The orders in which a scan may hand out its keys.
Orders(keys) ==
  {q \in [1..Cardinality(keys) -> keys] : \A k \in keys : \E i \in DOMAIN q : q[i] = k}

LiveRecords(s) ==
  [redis |-> {k \in DOMAIN s.redis : RemoteLive(s.redis, k)},
   mem |-> {k \in DOMAIN s.mem : DateNow <= s.mem[k].expiresAt}]

\* The live records of the keys outside handled are in post as they are in pre.
Untouched(pre, post, handled) ==
  /\ \A k \in LiveRecords(pre).redis \ handled :
       k \in DOMAIN post.redis /\ post.redis[k] = pre.redis[k]
  /\ \A k \in LiveRecords(pre).mem \ handled :
       k \in DOMAIN post.mem /\ post.mem[k] = pre.mem[k]

\* One run of cleanupExpiredSessions, whoever starts it.
RunCleanup(o) ==
  \E scan \in {getAllSessionKeys(Store, o)} :
  \E sessionKeys \in Orders(scan.keys),
     outs \in [scan.keys -> FaultOutcomes \X FaultOutcomes] :
  \E r \in {cleanupExpiredSessions(Store, sessionKeys, scan, outs)} :
    LET handled == {r.visits[i].key : i \in {j \in DOMAIN r.visits : r.visits[j].deleted}}
    IN  /\ PutStore(r.s)
        /\ last' = [op |-> "cleanupExpiredSessions", at |-> now, scanned |-> scan.keys,
                    visits |-> r.visits, result |-> r.result, threw |-> r.threw,
                    untouched |-> Untouched(Store, r.s, handled)]
        /\ UNCHANGED <<now, memoryStore, rlConfig, env, written, accepted, scenario,
                       window, pair, sessionIds, verifiers, emailService>>

CleanupExpiredSessions(o) ==
  /\ RunCleanup(o)
  /\ UNCHANGED <<cleanupInterval, sweeps, verifiers, emailService>>

(***************************************************************************)
(* SpecCleanup: up to two sessions are created and validated, and the      *)
(* cleanup runs over them with store calls that may fail or reject.        *)
(***************************************************************************)
CleanupRandoms == {"r1", "r2"}
CleanupUser == [userId |-> "u1", email |-> "a@b.com"]

\* The clock stands at the start, at the expiry of a session created then,
\* or past it.
CleanupInstants ==
  {0, SESSION_EXPIRY_SECONDS, SESSION_EXPIRY_SECONDS + MaxTicksSession}

TickCleanup ==
  \E t \in CleanupInstants : t > now /\ Advance(t - now, CleanupInstants)

InitCleanup == InitStore /\ InitRest

NextCleanup ==
  \/ \E x \in CleanupRandoms, o \in Outcomes : CreateSession(CleanupUser, x, o)
  \/ \E i \in sessionIds : ValidateSession(i, "ok", "ok")
  \/ \E o \in FaultOutcomes : CleanupExpiredSessions(o)
  \/ TickCleanup
  \/ RedisError
  \/ RedisConnect
  \/ MemoryCacheCleanup

SpecCleanup == InitCleanup /\ [][NextCleanup]_vars

(***************************************************************************)
(* C19.  cleanupExpiredSessions visits every key the session scan          *)
(* returned; for each key it issues the delete and counts the key when the *)
(* store returned no value or when now - lastAccessed exceeds the max      *)
(* session age, leaves every other record untouched, and when a store call *)
(* for a key throws it records one error string and goes on with the       *)
(* remaining keys; sessionsDeleted is the number of keys deleted or found  *)
(* gone, and the call never throws.                                        *)
(***************************************************************************)
GetThrew(v) == v.calls[1].threw
DeleteIssued(v) == Len(v.calls) = 2 /\ v.calls[2].call = "delete"
DeleteThrew(v) == DeleteIssued(v) /\ v.calls[2].threw
VisitThrew(v) == GetThrew(v) \/ DeleteThrew(v)

GoneOrAged(v, at) ==
  /\ ~GetThrew(v)
  /\ \/ ~v.found.found
     \/ at * 1000 - JSONParse(v.found.value).lastAccessed > SESSION_EXPIRY_SECONDS * 1000

VisitAsClaimed(v, at) ==
  /\ GoneOrAged(v, at) => (DeleteIssued(v) /\ (v.deleted <=> ~DeleteThrew(v)))
  /\ (~GetThrew(v) /\ ~GoneOrAged(v, at)) =>
       (Len(v.calls) = 1 /\ ~v.deleted /\ ~v.error.found)
  /\ VisitThrew(v) => (~v.deleted /\ v.error = Some(CleanupError(v.key)))
  /\ ~VisitThrew(v) => ~v.error.found

C19_WitnessKept ==
  /\ last.op = "cleanupExpiredSessions"
  /\ \E i \in DOMAIN last.visits :
       /\ last.visits[i].found.found
       /\ ~last.visits[i].deleted
       /\ SessionKey(CHOOSE id \in sessionIds : SessionKey(id) = last.visits[i].key)
            \in DOMAIN redis
  /\ last.result.sessionsDeleted = 0
(***************************************************************************)
(* C20.  deleteSession is idempotent and never throws: called once or      *)
(* several times on an existing or a missing id it completes normally, and *)
(* after a deleteSession(id) validateSession(id) returns success = false   *)
(* until a new session is created.  Stated of the validateSession that     *)
(* would be the next session call after the deleteSession.                 *)
(***************************************************************************)
C20_DeleteNeverThrows == last.op = "deleteSession" => ~last.threw

C20_DeletedStaysDeleted ==
  last.op = "deleteSession" =>
    ~validateSession(Store, last.id, "ok", "ok").result.success

C20_DeleteSession == C20_DeleteNeverThrows /\ C20_DeletedStaysDeleted
(***************************************************************************)
(* C21.  verifyToken classifies its failures into distinguishable errors:  *)
(* a token with a bad signature or a malformed body raises                 *)
(* 'Invalid token: ...', an expired token raises 'Token has expired', a    *)
(* not-yet-valid token raises 'Token not active yet', and no expired or    *)
(* not-yet-valid token is reported under the 'Invalid token: ...' error.   *)
(* The cases are read off the token presented, with the signing secret     *)
(* available: BadlySigned is a token that is no JWT or is signed with      *)
(* another key, NotYetValid a well signed one whose nbf lies ahead,        *)
(* Expired a well signed, active one whose exp has been reached.           *)
(***************************************************************************)
VerifiedWithSecret ==
  /\ last.op = "verifyToken"
  /\ ~getJWTSecret.threw

BadlySigned(token) == token.key # JWT_SECRET

NotYetValid(token, at) ==
  /\ token.key = JWT_SECRET
  /\ "nbf" \in DOMAIN token.payload
  /\ token.payload.nbf > at

Expired(token, at) ==
  /\ token.key = JWT_SECRET
  /\ ~NotYetValid(token, at)
  /\ ~Unexpired(token, at)

ReportedInvalid(result) ==
  /\ result.threw
  /\ Len(result.message) >= 1
  /\ result.message[1] = "Invalid token: "

C21_BadSignatureInvalid ==
  (VerifiedWithSecret /\ BadlySigned(last.token)) => ReportedInvalid(last.result)

C21_ExpiredReported ==
  (VerifiedWithSecret /\ Expired(last.token, last.at))
    => /\ last.result.threw
       /\ last.result.message = <<"Token has expired">>

C21_NotActiveReported ==
  (VerifiedWithSecret /\ NotYetValid(last.token, last.at))
    => /\ last.result.threw
       /\ last.result.message = <<"Token not active yet">>

C21_Classification ==
  /\ C21_BadSignatureInvalid
  /\ C21_ExpiredReported
  /\ C21_NotActiveReported
(***************************************************************************)
(* C22.  extractTokenFromHeader accepts exactly the headers made of        *)
(* 'Bearer', one space and a non-empty token with no further space: for    *)
(* such a header verifyToken is called once, with that token, and its      *)
(* outcome is the outcome of the call (its payload when it returns, its    *)
(* error behind 'Failed to extract token from header: ' when it throws);   *)
(* for an empty header, another scheme, a missing token or extra parts the *)
(* call throws and verifyToken is not called.                              *)
(***************************************************************************)
Extraction == last.op = "extractTokenFromHeader"

\* The shape read off the header itself, piece by piece.
BearerShape(header) ==
  /\ Len(header) >= 3
  /\ header[1] = Word("Bearer")
  /\ header[2] = Space
  /\ \A i \in 3..Len(header) : header[i] # Space

TokenText(header) == SubSeq(header, 3, Len(header))

OutcomeOf(verification) ==
  IF verification.threw
  THEN Threw("Error", <<"Failed to extract token from header: ">>
                        \o verification.message)
  ELSE verification

C22_ExtractTokenFromHeader ==
  /\ (Extraction /\ BearerShape(last.header) /\ last.at = now) =>
        /\ last.verified = <<AsToken(TokenText(last.header))>>
        /\ last.result = OutcomeOf(verifyToken(AsToken(TokenText(last.header))))
  /\ (Extraction /\ ~BearerShape(last.header)) =>
        /\ last.verified = <<>>
        /\ last.result.threw
  /\ (Extraction /\ ~last.result.threw) => BearerShape(last.header)

\* A well-formed header carrying a token that verifies returns its payload.
C22_Witness ==
  /\ Extraction
  /\ BearerShape(last.header)
  /\ ~last.result.threw
  /\ last.result.value.userId = "u1"
  /\ Len(last.verified) = 1

\* Another scheme before a token that would verify: thrown, nothing verified.
C22_WitnessScheme ==
  /\ Extraction
  /\ last.header = <<Word("Basic"), Space, Jwt(HeaderToken)>>
  /\ ~verifyToken(HeaderToken).threw
  /\ last.result.threw
  /\ last.verified = <<>>
(***************************************************************************)
(* C23.  resetRateLimit(identifier, operation) removes the counter that    *)
(* checkRateLimit(identifier, operation) uses, is idempotent and never     *)
(* throws: after it returns, the next checkRateLimit for the same          *)
(* identifier and operation returns allowed = true with remaining =        *)
(* maxRequests - 1, whichever backend held the counter and whichever key   *)
(* prefix the check is configured with.  NextCheck is that next call, made *)
(* in the current state with its store calls succeeding.                   *)
(***************************************************************************)
ResetReturned == last.op = "resetRateLimit"

NextCheck ==
  checkRateLimit(Store, memoryStore, last.identifier, last.operation, rlConfig,
                 "ok", "ok").result

NextCheckFresh ==
  /\ NextCheck.allowed
  /\ NextCheck.remaining = FinalConfig(rlConfig).maxRequests - 1

C23_NeverThrows == ResetReturned => ~last.threw

\* A second reset, its delete succeeding, changes nothing.
C23_Idempotent ==
  \A i \in RLIdentifiers, op \in RLOperations :
    LET once == resetRateLimit(Store, memoryStore, i, op, "ok")
        twice == resetRateLimit(once.s, once.ms, i, op, "ok")
    IN  /\ twice.s = once.s
        /\ twice.ms = once.ms

C23_ResetClears == ResetReturned => NextCheckFresh

C23_ResetRateLimit ==
  /\ C23_NeverThrows
  /\ C23_Idempotent
  /\ C23_ResetClears

\* Where the counter is cleared: the default prefix, a limit of at least 1,
\* a delete that did not fail, and the backend that served the reset still
\* serving the check.
ResetServedBy == IF last.calls = <<>> THEN "memory" ELSE "redis"

C23_ClearsOnSameBackend ==
  ( /\ ResetReturned
    /\ FinalConfig(rlConfig).keyPrefix = RATE_LIMIT_PREFIX
    /\ FinalConfig(rlConfig).maxRequests >= 1
    /\ \A i \in DOMAIN last.calls :
         ~last.calls[i].threw /\ last.calls[i].served = "redis"
    /\ IsConnected(Store) <=> ResetServedBy = "redis" ) => NextCheckFresh

\* The reset and the check agree on every call, yet the counter stays: the
\* check counts under its own prefix, the reset deletes under the default.
C23_CustomPrefixCleared ==
  ( /\ ResetReturned
    /\ FinalConfig(rlConfig).keyPrefix = CUSTOM_PREFIX
    /\ \A i \in DOMAIN last.calls :
         ~last.calls[i].threw /\ last.calls[i].served = "redis"
    /\ IsConnected(Store) <=> ResetServedBy = "redis" ) => NextCheckFresh
(***************************************************************************)
(* The periodic sweep (session.ts 315-335).  The constructor arms an       *)
(* interval timer; cleanupInterval holds the instant at which the timer    *)
(* fires next, and Null once stopPeriodicCleanup has cleared it.  The      *)
(* specifications above run with the timer cleared.  A timer fires when    *)
(* it is due: the clock does not pass the due instant of an armed timer.   *)
(***************************************************************************)
CLEANUP_INTERVAL_MINUTES == 60

\* The interval in seconds (the code passes minutes * 60 * 1000 milliseconds).
CleanupIntervalSeconds == (CLEANUP_INTERVAL_MINUTES * 60 * 1000) \div 1000

MaxSweeps == 3
MaxStops == 2

\* setInterval(callback, interval), called at instant at.
startPeriodicCleanup(at) == Some(at + CleanupIntervalSeconds)

\* Mutant of OnInterval: a sweep that met an error clears the timer.
OnInterval_StopsOnFailure(timer, outcome) ==
  IF outcome.threw \/ outcome.result.errors # <<>> THEN Null
  ELSE Some(timer.value + CleanupIntervalSeconds)

\* The timer after its callback has run: the callback catches what the sweep
\* throws, and the interval timer is due again one interval later.
OnInterval(timer, outcome) == Some(timer.value + CleanupIntervalSeconds)

stopPeriodicCleanup(timer) == IF timer.found THEN Null ELSE timer

SweepsStarted == SelectSeq(sweeps, LAMBDA e : e.ev = "sweep")
Stops == SelectSeq(sweeps, LAMBDA e : e.ev = "stop")

TimerFires(o) ==
  /\ cleanupInterval.found
  /\ now = cleanupInterval.value
  /\ RunCleanup(o)
  /\ cleanupInterval' = OnInterval(cleanupInterval, last')
  /\ sweeps' = Append(sweeps, [ev |-> "sweep", at |-> now,
                               failed |-> last'.threw \/ last'.result.errors # <<>>])

StopPeriodicCleanup ==
  /\ Len(Stops) < MaxStops
  /\ cleanupInterval' = stopPeriodicCleanup(cleanupInterval)
  /\ sweeps' = Append(sweeps, [ev |-> "stop", at |-> now,
                               wasArmed |-> cleanupInterval.found])
  /\ last' = [op |-> "stopPeriodicCleanup", at |-> now, threw |-> FALSE]
  /\ UNCHANGED <<now, client, isRedisAvailable, redis, memoryCache, memoryStore,
                 rlConfig, env, written, accepted, scenario, window, pair, sessionIds,
                 verifiers, emailService>>

\* The clock visits every half interval of the first MaxSweeps intervals.
PeriodicInstants ==
  {k * (CleanupIntervalSeconds \div 2) : k \in 0..(2 * MaxSweeps)}

TickPeriodic ==
  \E t \in PeriodicInstants :
    /\ t > now
    /\ cleanupInterval.found => t <= cleanupInterval.value
    /\ Advance(t - now, PeriodicInstants)

PeriodicRandoms == {"r1"}

InitPeriodic ==
  /\ InitStore
  /\ memoryStore = Empty
  /\ rlConfig = Empty
  /\ env = DevEnv
  /\ last = NoCall
  /\ written = [redis |-> Empty, memory |-> Empty]
  /\ accepted = Empty
  /\ scenario = Empty
  /\ window = Empty
  /\ pair = NoPair
  /\ sessionIds = {}
  /\ cleanupInterval = startPeriodicCleanup(0)
  /\ sweeps = <<>>
  /\ verifiers = Empty
  /\ emailService = NewEmailService

FireTimer == \E o \in FaultOutcomes : TimerFires(o)

NextPeriodic ==
  \/ \E x \in PeriodicRandoms, o \in Outcomes : CreateSession(CleanupUser, x, o)
  \/ FireTimer
  \/ StopPeriodicCleanup
  \/ TickPeriodic
  \/ RedisError
  \/ RedisConnect

\* The event loop runs a timer that is due, and time goes on.
SpecPeriodic ==
  /\ InitPeriodic
  /\ [][NextPeriodic]_vars
  /\ WF_vars(FireTimer)
  /\ WF_vars(TickPeriodic)
(***************************************************************************)
(* C24.  The session cleanup sweep runs repeatedly at the configured fixed *)
(* interval from construction of the SessionService (the kth sweep starts  *)
(* k intervals after construction, and while the timer is armed the next   *)
(* one does start), a failure of one sweep does not stop later sweeps,     *)
(* after stopPeriodicCleanup() returns no further sweep is started, and a  *)
(* second stopPeriodicCleanup() does nothing and does not throw.           *)
(* The service is constructed at instant 0.                                *)
(***************************************************************************)
NeverStopped == Stops = <<>>

C24_FixedInterval ==
  \A k \in DOMAIN SweepsStarted : SweepsStarted[k].at = k * CleanupIntervalSeconds

\* Whatever the sweeps so far met, the timer stays armed for the next one.
C24_ArmedUntilStopped ==
  NeverStopped =>
    /\ cleanupInterval = Some((Len(SweepsStarted) + 1) * CleanupIntervalSeconds)
    /\ now <= cleanupInterval.value

C24_NoSweepAfterStop ==
  /\ ~NeverStopped => cleanupInterval = Null
  /\ \A i \in DOMAIN sweeps, j \in DOMAIN sweeps :
       (i < j /\ sweeps[i].ev = "stop") => sweeps[j].ev # "sweep"

C24_StopTwiceHarmless ==
  /\ last.op = "stopPeriodicCleanup" => ~last.threw
  /\ \A i \in DOMAIN Stops : (i > 1) => ~Stops[i].wasArmed

C24_Safety ==
  /\ C24_FixedInterval
  /\ C24_ArmedUntilStopped
  /\ C24_NoSweepAfterStop
  /\ C24_StopTwiceHarmless

C24_NextSweepStarts ==
  \A n \in 0..(MaxSweeps - 1) :
    (NeverStopped /\ Len(SweepsStarted) = n)
      ~> (Len(SweepsStarted) = n + 1 \/ ~NeverStopped)

C24_PeriodicCleanup == []C24_Safety /\ C24_NextSweepStarts

\* A sweep that met an error is followed by the next sweep, one interval on.
C24_Witness ==
  /\ NeverStopped
  /\ Len(SweepsStarted) >= 2
  /\ SweepsStarted[1].failed
  /\ SweepsStarted[2].at = SweepsStarted[1].at + CleanupIntervalSeconds

\* Stopped twice after one sweep; the instant of the second sweep has passed.
C24_WitnessStopped ==
  /\ Len(Stops) = 2
  /\ Len(SweepsStarted) = 1
  /\ now > 2 * CleanupIntervalSeconds
(***************************************************************************)
(* C25.  Every CacheEntry created in the fallback map by                   *)
(* set(key, value, ttlSeconds) has expiresAt strictly later than the time  *)
(* of creation, for every ttlSeconds the callers can pass.  An entry is    *)
(* created by a step when the map holds it after the step and did not hold *)
(* it, or held another one, before; the clock does not move in such a      *)
(* step.                                                                   *)
(***************************************************************************)
CreatedEntries ==
  {k \in DOMAIN memoryCache' :
     k \notin DOMAIN memoryCache \/ memoryCache'[k] # memoryCache[k]}

ExpiresInFuture == \A k \in CreatedEntries : memoryCache'[k].expiresAt > DateNow

C25_ExpiresAtInFuture == [][ExpiresInFuture]_vars

\* The same for the calls made with a positive windowSeconds.
C25_PositiveTTL ==
  [][FinalConfig(rlConfig).windowSeconds > 0 => ExpiresInFuture]_vars
(***************************************************************************)
(* Concurrent verifyOTP calls (otp.ts 87-116).  A call gives way at its    *)
(* awaits: once while the store reads the record, once while deleteOTP     *)
(* removes it.  verifyOTPRead is the call up to the comparison,            *)
(* verifyOTPDelete what follows a match; another caller's steps may run in *)
(* between.  verifiers[c] holds the locals of caller c across the await.   *)
(***************************************************************************)
Callers == {"c1", "c2"}

verifyOTPRead(s, identifier, otp, o1) ==
  LET g == Get(s, OtpKey(identifier), o1)
  IN  [s |-> g.s, storedOTP |-> g.value,
       isValid |-> ~g.threw /\ g.value.found /\ g.value.value = otp,
       calls |-> <<Call("get", g)>>]

\* Mutant of verifyOTPDelete: the call succeeds only when the record was
\* still there to be deleted.
verifyOTPDelete_IfPresent(s, identifier, o2) ==
  LET d == deleteOTP(s, identifier, o2)
      present == Get(s, OtpKey(identifier), "ok").value.found
  IN  [s |-> d.s, result |-> ~d.threw /\ present, deleteThrew |-> d.threw,
       calls |-> d.calls]

verifyOTPDelete(s, identifier, o2) ==
  LET d == deleteOTP(s, identifier, o2)
  IN  [s |-> d.s, result |-> ~d.threw, deleteThrew |-> d.threw, calls |-> d.calls]

NotCalled == [pc |-> "idle"]

Verifier(pc, identifier, otp, isValid, present, deleteThrew, result) ==
  [pc |-> pc, id |-> identifier, otp |-> otp, isValid |-> isValid,
   present |-> present, deleteThrew |-> deleteThrew, result |-> result]

Accept(identifier, otp, result) ==
  IF result /\ identifier \in DOMAIN accepted /\ otp = accepted[identifier].code
  THEN [accepted EXCEPT ![identifier].n = Bump(@)]
  ELSE accepted

VerifyOTPRead(c, identifier, otp, o1) ==
  /\ verifiers[c].pc = "idle"
  /\ \E r \in {verifyOTPRead(Store, identifier, otp, o1)} :
       /\ PutStore(r.s)
       /\ verifiers' = [verifiers EXCEPT ![c] =
            Verifier(IF r.isValid THEN "read" ELSE "done", identifier, otp,
                     r.isValid, FALSE, FALSE, FALSE)]
       /\ last' = IF r.isValid THEN last
                  ELSE [op |-> "verifyOTP", id |-> identifier, otp |-> otp,
                        found |-> r.storedOTP, result |-> FALSE, threw |-> FALSE,
                        calls |-> r.calls]
  /\ UNCHANGED <<now, memoryStore, rlConfig, env, written, accepted, scenario, window,
                 pair, sessionIds, cleanupInterval, sweeps, emailService>>

VerifyOTPDelete(c, o2) ==
  /\ verifiers[c].pc = "read"
  /\ \E r \in {verifyOTPDelete(Store, verifiers[c].id, o2)} :
       /\ PutStore(r.s)
       /\ verifiers' = [verifiers EXCEPT ![c] =
            Verifier("done", @.id, @.otp, TRUE,
                     Get(Store, OtpKey(@.id), "ok").value.found,
                     r.deleteThrew, r.result)]
       /\ last' = [op |-> "verifyOTP", id |-> verifiers[c].id, otp |-> verifiers[c].otp,
                   found |-> Some(verifiers[c].otp), result |-> r.result,
                   threw |-> FALSE, calls |-> r.calls]
       /\ accepted' = Accept(verifiers[c].id, verifiers[c].otp, r.result)
  /\ UNCHANGED <<now, memoryStore, rlConfig, env, written, scenario, window,
                 pair, sessionIds, cleanupInterval, sweeps, emailService>>

\* SpecOTPRace: codes are stored, then each caller makes one verifyOTP call.
NobodyVerifying == \A c \in Callers : verifiers[c].pc = "idle"

InitOTPRace ==
  /\ InitStore
  /\ memoryStore = Empty
  /\ rlConfig = Empty
  /\ env = DevEnv
  /\ last = NoCall
  /\ written = [redis |-> Empty, memory |-> Empty]
  /\ accepted = [i \in OTPIds |-> [code |-> "", n |-> 0]]
  /\ scenario = Empty
  /\ window = Empty
  /\ pair = NoPair
  /\ sessionIds = {}
  /\ cleanupInterval = Null
  /\ sweeps = <<>>
  /\ verifiers = [c \in Callers |-> NotCalled]
  /\ emailService = NewEmailService

NextOTPRace ==
  \/ \E i \in OTPIds, otp \in OTPCodes, o \in FaultOutcomes :
       NobodyVerifying /\ StoreOTP(i, otp, o)
  \/ \E c \in Callers, i \in OTPIds, otp \in OTPCodes, o1 \in FaultOutcomes :
       VerifyOTPRead(c, i, otp, o1)
  \/ \E c \in Callers, o2 \in FaultOutcomes : VerifyOTPDelete(c, o2)
  \/ OTPEnvironment

SpecOTPRace == InitOTPRace /\ [][NextOTPRace]_vars

(***************************************************************************)
(* C26.  With two verifyOTP(id, code) calls for the same identifier        *)
(* running concurrently after one storeOTP(id, code), there is an          *)
(* interleaving (both reads happen before either delete) in which both     *)
(* calls return true; the read-compare-delete is not atomic.  As an        *)
(* invariant: a call returns true exactly when its own read matched and    *)
(* its own delete did not throw, whether or not the record was still there *)
(* when it came to delete it; and run without another caller in between,   *)
(* the two halves of a call are verifyOTP.  The witness is the             *)
(* interleaving of the claim.                                              *)
(***************************************************************************)
Done(c) == verifiers[c].pc = "done"

C26_ResultFromOwnRead ==
  \A c \in Callers :
    Done(c) => (verifiers[c].result <=> verifiers[c].isValid /\ ~verifiers[c].deleteThrew)

C26_HalvesAreVerifyOTP ==
  \A i \in OTPIds, otp \in OTPCodes, o1 \in FaultOutcomes, o2 \in FaultOutcomes :
    LET whole == verifyOTP(Store, i, otp, o1, o2)
        r == verifyOTPRead(Store, i, otp, o1)
        d == verifyOTPDelete(r.s, i, o2)
    IN  IF r.isValid
        THEN whole.s = d.s /\ whole.result = d.result /\ whole.calls = r.calls \o d.calls
        ELSE whole.s = r.s /\ ~whole.result /\ whole.calls = r.calls

C26_NotAtomic == C26_ResultFromOwnRead /\ C26_HalvesAreVerifyOTP

\* Both calls have returned true for the one code stored before them.
C26_Witness ==
  /\ \A c \in Callers : Done(c) /\ verifiers[c].result /\ verifiers[c].id = OTPUser
  /\ accepted[OTPUser].n = 2
  /\ \E c \in Callers : ~verifiers[c].present

\* Both reads have happened and neither delete has.
C26_WitnessBothRead ==
  \A c \in Callers : verifiers[c].pc = "read" /\ verifiers[c].otp = accepted[OTPUser].code
(***************************************************************************)
(* EmailService (rate-limiter.ts 270-581).  Its maps hold instants in      *)
(* milliseconds.  An email id is the number of the randomUUID() call that  *)
(* produced it.  One attempt of sendEmailWithRetry, with the sendMail it   *)
(* awaits, is one step; o is the outcome of that sendMail.  NODE_ENV is    *)
(* 'development' or 'production'.                                          *)
(***************************************************************************)
RATE_LIMIT_WINDOW == 60 * 1000
RATE_LIMIT_MAX == 5
MAX_RETRY_ATTEMPTS == 3
RETRY_DELAY == 5000

isDevelopment == ~env.production

EmailOptions == [to |-> "test@example.com", subject |-> "Test"]

cleanupExpiredRateLimitEntries(map, nowMs) ==
  [k \in {x \in DOMAIN map : ~(nowMs > map[x].resetTime)} |-> map[k]]

\* Mutant of EmailCheckRateLimit: the count of an open window is not raised.
EmailCheckRateLimit_NoCount(svc, identifier) ==
  LET map == cleanupExpiredRateLimitEntries(svc.rateLimitMap, DateNow)
  IN  IF identifier \notin DOMAIN map \/ DateNow > map[identifier].resetTime
      THEN [map |-> With(map, identifier,
                         [count |-> 1, resetTime |-> DateNow + RATE_LIMIT_WINDOW]),
            allowed |-> TRUE]
      ELSE IF map[identifier].count >= RATE_LIMIT_MAX
      THEN [map |-> map, allowed |-> FALSE]
      ELSE [map |-> map, allowed |-> TRUE]

\* EmailService.checkRateLimit(identifier)
EmailCheckRateLimit(svc, identifier) ==
  LET map == cleanupExpiredRateLimitEntries(svc.rateLimitMap, DateNow)
  IN  IF identifier \notin DOMAIN map \/ DateNow > map[identifier].resetTime
      THEN [map |-> With(map, identifier,
                         [count |-> 1, resetTime |-> DateNow + RATE_LIMIT_WINDOW]),
            allowed |-> TRUE]
      ELSE IF map[identifier].count >= RATE_LIMIT_MAX
      THEN [map |-> map, allowed |-> FALSE]
      ELSE [map |-> [map EXCEPT ![identifier].count = @ + 1], allowed |-> TRUE]

randomUUID(svc) == svc.issued + 1

Pending(options) ==
  [to |-> options.to, subject |-> options.subject, status |-> "pending",
   attempts |-> 0, lastAttempt |-> Null, error |-> Null, retryAfter |-> Null]

SendMailError == "error.message"

\* Mutant of sendEmailWithRetry: one more retry is scheduled.
sendEmailWithRetry_OneMore(svc, emailId, o) ==
  IF emailId \notin DOMAIN svc.deliveryStatusMap
  THEN [svc |-> svc, attempted |-> FALSE,
        result |-> Threw("Error", <<"Email delivery status not found">>)]
  ELSE
    LET tried == [svc.deliveryStatusMap[emailId] EXCEPT
                    !.status = "retrying", !.attempts = @ + 1,
                    !.lastAttempt = Some(DateNow)]
        put(status) == [svc EXCEPT !.deliveryStatusMap[emailId] = status]
    IN  IF o = "ok"
        THEN [svc |-> put([tried EXCEPT !.status = "sent"]), attempted |-> TRUE,
              result |-> Returned(emailId)]
        ELSE IF tried.attempts <= MAX_RETRY_ATTEMPTS
        THEN [svc |-> [put([tried EXCEPT !.error = Some(SendMailError),
                                         !.retryAfter = Some(DateNow + RETRY_DELAY)])
                         EXCEPT !.timeoutIds =
                           @ \cup {[emailId |-> emailId, due |-> DateNow + RETRY_DELAY]}],
              attempted |-> TRUE,
              result |-> Returned(emailId)]
        ELSE [svc |-> put([tried EXCEPT !.error = Some(SendMailError),
                                        !.status = "failed"]),
              attempted |-> TRUE,
              result |-> Threw("Error",
                <<"Email sending failed after ">> \o NumberToString(MAX_RETRY_ATTEMPTS)
                  \o <<" attempts: ", SendMailError>>)]

sendEmailWithRetry(svc, emailId, o) ==
  IF emailId \notin DOMAIN svc.deliveryStatusMap
  THEN [svc |-> svc, attempted |-> FALSE,
        result |-> Threw("Error", <<"Email delivery status not found">>)]
  ELSE
    LET tried == [svc.deliveryStatusMap[emailId] EXCEPT
                    !.status = "retrying", !.attempts = @ + 1,
                    !.lastAttempt = Some(DateNow)]
        put(status) == [svc EXCEPT !.deliveryStatusMap[emailId] = status]
    IN  IF o = "ok"
        THEN [svc |-> put([tried EXCEPT !.status = "sent"]), attempted |-> TRUE,
              result |-> Returned(emailId)]
        ELSE IF tried.attempts < MAX_RETRY_ATTEMPTS
        THEN [svc |-> [put([tried EXCEPT !.error = Some(SendMailError),
                                         !.retryAfter = Some(DateNow + RETRY_DELAY)])
                         EXCEPT !.timeoutIds =
                           @ \cup {[emailId |-> emailId, due |-> DateNow + RETRY_DELAY]}],
              attempted |-> TRUE,
              result |-> Returned(emailId)]
        ELSE [svc |-> put([tried EXCEPT !.error = Some(SendMailError),
                                        !.status = "failed"]),
              attempted |-> TRUE,
              result |-> Threw("Error",
                <<"Email sending failed after ">> \o NumberToString(MAX_RETRY_ATTEMPTS)
                  \o <<" attempts: ", SendMailError>>)]

\* identifier "" stands for a call without identifier (identifier && ...).
sendEmail(svc, options, identifier, o) ==
  LET limit == EmailCheckRateLimit(svc, identifier)
      checked == IF identifier = "" THEN svc ELSE [svc EXCEPT !.rateLimitMap = limit.map]
      emailId == randomUUID(svc)
      created == [checked EXCEPT !.issued = emailId,
                                 !.deliveryStatusMap = With(@, emailId, Pending(options))]
  IN  IF ~svc.initialized
      THEN [svc |-> svc, attempted |-> FALSE,
            result |-> Threw("Error", <<"Email service initialization timeout">>)]
      ELSE IF identifier # "" /\ ~limit.allowed
      THEN [svc |-> checked, attempted |-> FALSE,
            result |-> Threw("Error", <<"Rate limit exceeded. Please try again later.">>)]
      ELSE IF isDevelopment
      THEN [svc |-> [created EXCEPT !.deliveryStatusMap[emailId] =
                       [@ EXCEPT !.status = "sent", !.attempts = 1,
                                 !.lastAttempt = Some(DateNow)]],
            attempted |-> FALSE,
            result |-> Returned(emailId)]
      ELSE sendEmailWithRetry(created, emailId, o)

\* cleanup(): pending timeouts cleared, delivery statuses dropped.
cleanup(svc) == [svc EXCEPT !.timeoutIds = {}, !.deliveryStatusMap = Empty]

EmailFrame ==
  UNCHANGED <<now, client, isRedisAvailable, redis, memoryCache, memoryStore, rlConfig,
              env, written, accepted, scenario, pair, sessionIds, cleanupInterval,
              sweeps, verifiers>>

\* window[identifier] follows the calls made for identifier: how many were
\* made and refused, the window opened by the first accepted call, and since
\* then the number of calls made and accepted in it and the outcome of the
\* last one.
EmailFresh == [phase |-> "fresh", calls |-> 0, refused |-> 0]

AfterSend(w, r, statusesBefore) ==
  LET ok == ~r.result.threw
      outcome == [accepted |-> ok, at |-> DateNow, result |-> r.result,
                  created |-> DOMAIN r.svc.deliveryStatusMap \ statusesBefore]
      calls == w.calls + 1
      refused == w.refused + (IF ok THEN 0 ELSE 1)
  IN  IF w.phase = "open" /\ ~(DateNow > w.start + RATE_LIMIT_WINDOW)
      THEN [w EXCEPT !.n = @ + 1, !.ok = @ + (IF ok THEN 1 ELSE 0),
                     !.outcome = outcome, !.calls = calls, !.refused = refused]
      ELSE IF ok
      THEN [phase |-> "open", start |-> DateNow, n |-> 1, ok |-> 1,
            outcome |-> outcome, reopened |-> (w.phase = "open"),
            calls |-> calls, refused |-> refused]
      ELSE [phase |-> "refused", outcome |-> outcome,
            calls |-> calls, refused |-> refused]

SendEmail(identifier, o) ==
  \E r \in {sendEmail(emailService, EmailOptions, identifier, o)} :
    /\ emailService' = r.svc
    /\ last' = [op |-> "sendEmail", at |-> now, identifier |-> identifier,
                attempted |-> r.attempted, sendMailFailed |-> (r.attempted /\ o # "ok"),
                result |-> r.result,
                created |-> DOMAIN r.svc.deliveryStatusMap
                              \ DOMAIN emailService.deliveryStatusMap]
    /\ window' = IF identifier \in DOMAIN window
                 THEN [window EXCEPT ![identifier] =
                         AfterSend(@, r, DOMAIN emailService.deliveryStatusMap)]
                 ELSE window
    /\ EmailFrame

\* The callback of a retry timeout: the timeout is dropped from timeoutIds,
\* the next attempt runs, and what it throws is caught and logged.
RetryFires(timer, o) ==
  /\ timer \in emailService.timeoutIds
  /\ timer.due = DateNow
  /\ \E r \in {sendEmailWithRetry([emailService EXCEPT !.timeoutIds = @ \ {timer}],
                                   timer.emailId, o)} :
       /\ emailService' = r.svc
       /\ last' = [op |-> "retry", at |-> now, emailId |-> timer.emailId,
                   attempted |-> r.attempted, sendMailFailed |-> (r.attempted /\ o # "ok"),
                   result |-> r.result]
  /\ UNCHANGED window
  /\ EmailFrame

Cleanup ==
  /\ emailService' = cleanup(emailService)
  /\ emailService' # emailService
  /\ last' = [op |-> "cleanup", at |-> now]
  /\ UNCHANGED window
  /\ EmailFrame

\* The clock does not pass the instant at which a pending retry is due.
TickEmail(instants) ==
  \E t \in instants :
    /\ t > now
    /\ \A timer \in emailService.timeoutIds : t * 1000 <= timer.due
    /\ Advance(t - now, instants)

InitEmail(environments, w) ==
  /\ InitStore
  /\ memoryStore = Empty
  /\ rlConfig = Empty
  /\ env \in environments
  /\ last = NoCall
  /\ written = [redis |-> Empty, memory |-> Empty]
  /\ accepted = Empty
  /\ scenario = Empty
  /\ window = w
  /\ pair = NoPair
  /\ sessionIds = {}
  /\ cleanupInterval = Null
  /\ sweeps = <<>>
  /\ verifiers = Empty
  /\ emailService = NewEmailService

\* SpecEmailRetry: a production service sends up to MaxEmails emails and
\* retries them while the clock runs over the first MaxRetrySteps retry
\* delays.
MaxEmails == 2
MaxRetrySteps == 4

RetryInstants == {k * (RETRY_DELAY \div 1000) : k \in 0..MaxRetrySteps}

ProdEnv == [production |-> TRUE, secretLen |-> 32]

InitEmailRetry == InitEmail({ProdEnv}, Empty)

NextEmailRetry ==
  \/ \E i \in {"", "test-user"}, o \in Outcomes :
       emailService.issued < MaxEmails /\ SendEmail(i, o)
  \/ \E timer \in emailService.timeoutIds, o \in Outcomes : RetryFires(timer, o)
  \/ Cleanup
  \/ TickEmail(RetryInstants)

SpecEmailRetry == InitEmailRetry /\ [][NextEmailRetry]_vars
(***************************************************************************)
(* C27.  In production, when every sendMail attempt fails, the promise     *)
(* returned by sendEmail rejects with 'Email sending failed after 3        *)
(* attempts' and the delivery status ends as 'failed' with attempts = 3.   *)
(***************************************************************************)
FailedAfterRetries(result) ==
  /\ result.threw
  /\ Len(result.message) >= 3
  /\ SubSeq(result.message, 1, 3)
       = <<"Email sending failed after ", "3", " attempts: ">>

Statuses == {emailService.deliveryStatusMap[e] : e \in DOMAIN emailService.deliveryStatusMap}

\* C27 (second half): a delivery status is 'failed' only after exactly
\* MAX_RETRY_ATTEMPTS attempts, and the attempt that fails it throws the
\* 'failed after 3 attempts' error.
C27_FailedAfterThreeAttempts ==
  /\ \A s \in Statuses : s.status = "failed" => s.attempts = MAX_RETRY_ATTEMPTS
  /\ \A s \in Statuses : s.attempts <= MAX_RETRY_ATTEMPTS
  /\ (last.op \in {"sendEmail", "retry"} /\ FailedAfterRetries(last.result))
       => /\ last.op = "retry"
          /\ emailService.deliveryStatusMap[last.emailId].status = "failed"

\* C27 (second half): an email whose attempt failed short of the maximum is
\* 'retrying' and has its next attempt scheduled RETRY_DELAY after the failure.
C27_RetryScheduled ==
  \A e \in DOMAIN emailService.deliveryStatusMap :
    emailService.deliveryStatusMap[e].status = "retrying"
      => \E timer \in emailService.timeoutIds :
           /\ timer.emailId = e
           /\ Some(timer.due) = emailService.deliveryStatusMap[e].retryAfter
           /\ timer.due = emailService.deliveryStatusMap[e].lastAttempt.value + RETRY_DELAY

\* C27 (first half): a production sendEmail whose sendMail attempt failed
\* rejects with 'Email sending failed after 3 attempts'.
C27_SendEmailRejects ==
  (last.op = "sendEmail" /\ env.production /\ last.sendMailFailed)
    => FailedAfterRetries(last.result)

\* C27: both halves.
C27_FailureAfterMaxRetries ==
  /\ C27_FailedAfterThreeAttempts
  /\ C27_RetryScheduled
  /\ C27_SendEmailRejects

\* An email has failed for good: three attempts, all of them failed.
C27_WitnessFailed ==
  /\ last.op = "retry"
  /\ FailedAfterRetries(last.result)
  /\ \E s \in Statuses : s.status = "failed" /\ s.attempts = 3
\* SpecEmailLimit: up to MaxSendCalls sendEmail calls, with and without an
\* identifier, over two rate-limit windows, in development and in production.
\* sendMail succeeds: the limit is decided before any attempt is made.
MaxSendCalls == 7

EmailIdentifiers == {"", "test-user"}

LimitInstants == {0, 30, 60, 61}

SendCalls == window[""].calls + window["test-user"].calls

InitEmailLimit == InitEmail({DevEnv, ProdEnv}, [i \in EmailIdentifiers |-> EmailFresh])

NextEmailLimit ==
  \/ \E i \in EmailIdentifiers : SendCalls < MaxSendCalls /\ SendEmail(i, "ok")
  \/ Cleanup
  \/ TickEmail(LimitInstants)

SpecEmailLimit == InitEmailLimit /\ [][NextEmailLimit]_vars

(***************************************************************************)
(* C28.  The mailer's per-identifier limit: at most 5 sendEmail calls are  *)
(* accepted within one 60-second window starting at the first accepted     *)
(* call; the 6th call in that window throws 'Rate limit exceeded' and      *)
(* creates no delivery status; after the window has passed a call is       *)
(* accepted again.  Calls without an identifier are never limited.         *)
(***************************************************************************)
Limited == DOMAIN window \ {""}

RateLimitExceeded(result) ==
  /\ result.threw
  /\ result.message = <<"Rate limit exceeded. Please try again later.">>

Min(a, b) == IF a < b THEN a ELSE b

\* C28: of the calls made in an identifier's window, the first
\* RATE_LIMIT_MAX are accepted and no other.
C28_AtMostFiveAccepted ==
  \A i \in Limited :
    window[i].phase = "open" => window[i].ok = Min(window[i].n, RATE_LIMIT_MAX)

\* C28: a call is refused exactly when it is the 6th or a later call of its
\* window; a refused call throws 'Rate limit exceeded' and creates no
\* delivery status, an accepted call creates one.
C28_SixthRefused ==
  \A i \in Limited :
    window[i].phase = "open" =>
      /\ window[i].outcome.accepted <=> window[i].n <= RATE_LIMIT_MAX
      /\ ~window[i].outcome.accepted =>
           /\ RateLimitExceeded(window[i].outcome.result)
           /\ window[i].outcome.created = {}
      /\ window[i].outcome.accepted => Cardinality(window[i].outcome.created) = 1

\* C28: a call made when no window is open, the first one or one after the
\* window has passed, is accepted.
C28_AcceptedAfterWindow ==
  \A i \in Limited : window[i].phase # "refused"

\* C28: calls without an identifier are never refused.
C28_NoIdentifierNeverLimited ==
  /\ "" \in DOMAIN window => window[""].refused = 0
  /\ (last.op = "sendEmail" /\ last.identifier = "")
       => ~last.result.threw /\ Cardinality(last.created) = 1

\* C28: the four parts.
C28_EmailRateLimit ==
  /\ C28_AtMostFiveAccepted
  /\ C28_SixthRefused
  /\ C28_AcceptedAfterWindow
  /\ C28_NoIdentifierNeverLimited

\* The 6th call of a window has been refused, and a call after that window
\* has been accepted.
C28_Witness ==
  \E i \in Limited :
    /\ window[i].refused > 0
    /\ window[i].phase = "open"
    /\ window[i].reopened
    /\ window[i].outcome.accepted

\* The 6th call of a window, just refused.
C28_WitnessSixth ==
  \E i \in Limited :
    /\ window[i].phase = "open"
    /\ window[i].n = RATE_LIMIT_MAX + 1
    /\ ~window[i].outcome.accepted
    /\ last.op = "sendEmail" /\ last.identifier = i

\* More than RATE_LIMIT_MAX calls without an identifier, all accepted.
C28_WitnessNoIdentifier ==
  /\ window[""].calls > RATE_LIMIT_MAX
  /\ window[""].refused = 0
(***************************************************************************)
(* C29.  On the Redis-backed path every allowed checkRateLimit rewrites    *)
(* the counter with a TTL of the full windowSeconds, so the counter        *)
(* expires windowSeconds after the most recent allowed request, not after  *)
(* the first request of the window; under requests spaced less than        *)
(* windowSeconds apart the counter never resets before reaching            *)
(* maxRequests.                                                            *)
(***************************************************************************)
\* The last operation was a check that Redis served (its GET and its SETEX)
\* and that allowed the request.
AllowedByRedis ==
  /\ last.op = "checkRateLimit"
  /\ last.path = "redis"
  /\ last.onePath
  /\ Len(last.calls) = 2
  /\ last.result.allowed

WindowSeconds == FinalConfig(rlConfig).windowSeconds

\* C29: after an allowed check the counter is the old count plus one and
\* expires windowSeconds after that check, whatever its expiry was before;
\* it is there until then and gone afterwards.
C29_TTLRewritten ==
  AllowedByRedis =>
    IF now <= last.at + WindowSeconds
    THEN /\ last.key \in DOMAIN redis
         /\ redis[last.key].value = NumberToString(last.before + 1)
         /\ redis[last.key].expiresAt = (last.at + WindowSeconds) * 1000
    ELSE last.key \notin DOMAIN redis

\* C29: a check made less than windowSeconds after an allowed check of the
\* same key finds the counter that check wrote: it is allowed exactly when
\* that counter is below maxRequests, and then adds one to it.
\* A step that is a check: the steps that are none move the clock, change
\* the connection, sweep the memory cache or are a reset.
CheckStep ==
  /\ last'.op = "checkRateLimit"
  /\ last'.at = now
  /\ UNCHANGED <<now, isRedisAvailable, memoryCache>>

SpacedWithinWindow ==
  (/\ AllowedByRedis
   /\ CheckStep
   /\ last'.key = last.key
   /\ last'.path = "redis"
   /\ last'.onePath
   /\ last'.at - last.at < WindowSeconds)
    => /\ last'.before = last.before + 1
       /\ last'.result.allowed <=> last'.before < FinalConfig(rlConfig).maxRequests
       /\ last'.result.allowed => last'.after = last'.before + 1

C29_NeverResetsUnderTraffic == [][SpacedWithinWindow]_vars

\* C29: both parts.
C29_RedisTTLReset == [](C29_TTLRewritten) /\ C29_NeverResetsUnderTraffic

\* The counter written by the second allowed request of a window is still
\* there after windowSeconds have passed since the first request.
C29_Witness ==
  /\ AllowedByRedis
  /\ last.before >= 1
  /\ last.key \in DOMAIN window
  /\ window[last.key].phase = "open"
  /\ window[last.key].start < last.at
  /\ now > window[last.key].start + WindowSeconds
  /\ last.key \in DOMAIN redis
(***************************************************************************)
(* C30.  On the in-memory path the window is anchored to its first         *)
(* request: resetTime is set to now + windowSeconds only when no entry     *)
(* exists or now > resetTime, it is left unchanged by every later allowed  *)
(* or denied call in that window, and every result in the window reports   *)
(* that same resetTime.                                                    *)
(***************************************************************************)
\* A step that is a check served by the in-memory path.
MemoryCheckStep ==
  /\ last'.op = "checkRateLimit"
  /\ last'.path = "memory"
  /\ last'.at = now
  /\ UNCHANGED <<now, isRedisAvailable, memoryCache, redis>>

Anchored ==
  MemoryCheckStep =>
    LET key == last'.key
        opens == key \notin DOMAIN memoryStore \/ now > memoryStore[key].resetTime
    IN  /\ key \in DOMAIN memoryStore'
        /\ memoryStore'[key].resetTime =
             IF opens THEN now + WindowSeconds ELSE memoryStore[key].resetTime
        /\ last'.result.resetTime = memoryStore'[key].resetTime
        /\ \A k \in DOMAIN memoryStore \ {key} :
             k \in DOMAIN memoryStore' /\ memoryStore'[k] = memoryStore[k]

\* C30: a check in memory sets resetTime to now + windowSeconds when it
\* opens a window, leaves it as it is otherwise, and reports it.
C30_ResetTimeAnchored == [][Anchored]_vars

\* C30: every result of a window served in memory reports the resetTime of
\* the window's first request.
C30_SameResetTimeInWindow ==
  \A k \in DOMAIN window :
    (window[k].phase = "open" /\ window[k].path = "memory")
      => /\ window[k].result.resetTime = window[k].start + WindowSeconds
         /\ k \in DOMAIN memoryStore
         /\ memoryStore[k].resetTime = window[k].start + WindowSeconds

\* C30: both parts.
C30_MemoryWindowAnchored == [](C30_SameResetTimeInWindow) /\ C30_ResetTimeAnchored

\* A later call of a window in memory, denied, made after the first request
\* and reporting the first request's resetTime.
C30_Witness ==
  /\ last.op = "checkRateLimit"
  /\ last.path = "memory"
  /\ ~last.result.allowed
  /\ last.key \in DOMAIN window
  /\ window[last.key].phase = "open"
  /\ window[last.key].path = "memory"
  /\ window[last.key].start < last.at
  /\ last.result.resetTime = window[last.key].start + WindowSeconds

\* A window in memory opened after an earlier one had expired.
C30_WitnessReopened ==
  /\ last.op = "checkRateLimit"
  /\ last.path = "memory"
  /\ last.before = 0
  /\ last.at > 0
  /\ last.key \in DOMAIN window
  /\ window[last.key].phase = "open"
  /\ window[last.key].afterExpiry
(***************************************************************************)
(* C31.  A value written by set(key, v, ttl) while the store was connected *)
(* is not present in the in-memory map, so after a degradation event a     *)
(* get(key) served from memory returns null even though ttl has not        *)
(* elapsed; and a value written to memory while degraded is not returned   *)
(* by a get served by the remote cache after the connection flag becomes   *)
(* true again.                                                             *)
(***************************************************************************)
RecordOf(w) == [value |-> w.value, expiresAt |-> (w.at + w.ttl) * 1000]

\* Each backend holds nothing but what the sets it served itself left there.
BackendsApart ==
  /\ \A k \in DOMAIN memoryCache :
       k \in DOMAIN written.memory /\ memoryCache[k] = RecordOf(written.memory[k])
  /\ \A k \in DOMAIN redis :
       k \in DOMAIN written.redis /\ redis[k] = RecordOf(written.redis[k])

\* The last call was a get of a key whose last set was served by the remote
\* cache, less than ttl seconds ago, answered by the memory map.
MemoryGetAfterConnectedSet ==
  /\ last.op = "get"
  /\ last.served = "memory"
  /\ last.key \in DOMAIN written.redis
  /\ last.at < written.redis[last.key].at + written.redis[last.key].ttl

\* The last call was a get of a key whose last set was served by the memory
\* map, less than ttl seconds ago, answered by the remote cache.
RemoteGetAfterDegradedSet ==
  /\ last.op = "get"
  /\ last.served = "redis"
  /\ last.key \in DOMAIN written.memory
  /\ last.at < written.memory[last.key].at + written.memory[last.key].ttl

\* C31 as stated: such a get from memory returns null whenever the connected
\* set is the later of the sets of the key.
C31_MemoryGetReturnsNull ==
  (/\ MemoryGetAfterConnectedSet
   /\ last.key \in DOMAIN written.memory
        => written.memory[last.key].at < written.redis[last.key].at)
    => last.value = Null

\* C31, amended: the backends share no write; a get from memory after a
\* connected set returns null when no set of the key was served by memory,
\* and otherwise what that older set left in memory; a get from the remote
\* cache after a degraded set returns null when no set of the key was served
\* by the remote cache, and otherwise what that older set left there.
C31_SplitBrain ==
  /\ BackendsApart
  /\ MemoryGetAfterConnectedSet =>
       IF last.key \in DOMAIN written.memory
            /\ last.at <= written.memory[last.key].at + written.memory[last.key].ttl
       THEN last.value = Some(written.memory[last.key].value)
       ELSE last.value = Null
  /\ RemoteGetAfterDegradedSet =>
       IF last.key \in DOMAIN written.redis
            /\ last.at <= written.redis[last.key].at + written.redis[last.key].ttl
       THEN last.value = Some(written.redis[last.key].value)
       ELSE last.value = Null

\* A get from memory after a degradation event misses the value a connected
\* set wrote less than ttl seconds before.
C31_Witness ==
  /\ MemoryGetAfterConnectedSet
  /\ last.key \notin DOMAIN written.memory
  /\ last.wasConnected = FALSE
  /\ last.value = Null
  /\ last.key \in DOMAIN redis

\* A get from the remote cache after the reconnection misses the value a
\* degraded set wrote less than ttl seconds before.
C31_WitnessReconnected ==
  /\ RemoteGetAfterDegradedSet
  /\ last.key \notin DOMAIN written.redis
  /\ last.value = Null
  /\ last.key \in DOMAIN memoryCache
(***************************************************************************)
(* Session calls in flight (session.ts 131-224).  validateSession gives    *)
(* way at its awaits: once while the store reads the record, once while it *)
(* writes it back; refreshSession a third time at its own write.           *)
(* validateSessionRead is the call up to the record it found,              *)
(* validateSessionWrite the parse, the new lastAccessed and the write;     *)
(* deleteSession, with its single store call, may run in between.          *)
(* scenario[id] notes that deleteSession(id) has completed and left no     *)
(* record of id in either backend.                                         *)
(***************************************************************************)
validateSessionRead(s, sessionId, o1) ==
  LET g == Get(s, SessionKey(sessionId), o1)
  IN  [s |-> g.s, found |-> ~g.threw /\ g.value.found, sessionDataStr |-> g.value,
       result |-> IF g.threw THEN ValidationFailed ELSE NotFound,
       calls |-> <<Call("get", g)>>]

validateSessionWrite(s, sessionId, sessionDataStr, o2) ==
  LET sessionData == [JSONParse(sessionDataStr) EXCEPT !.lastAccessed = DateNow]
      w == Set(s, SessionKey(sessionId), JSONStringify(sessionData),
               SESSION_EXPIRY_SECONDS, o2)
  IN  [s |-> w.s,
       result |-> IF w.threw THEN ValidationFailed
                  ELSE [success |-> TRUE, session |-> sessionData],
       calls |-> <<Call("set", w)>>]

refreshSessionWrite(s, sessionId, validated, o3) ==
  LET session == [validated EXCEPT !.lastAccessed = DateNow]
      w == Set(s, SessionKey(sessionId), JSONStringify(session),
               SESSION_EXPIRY_SECONDS, o3)
  IN  [s |-> w.s,
       result |-> IF w.threw
                  THEN [success |-> FALSE, error |-> "Failed to refresh session"]
                  ELSE [success |-> TRUE, session |-> session],
       calls |-> <<Call("set", w)>>]

SessionCallers == {"c1"}

InFlight(pc, op, sessionId, data, result) ==
  [pc |-> pc, op |-> op, id |-> sessionId, data |-> data, result |-> result]

Absent(s, sessionId) ==
  /\ SessionKey(sessionId) \notin DOMAIN s.redis
  /\ SessionKey(sessionId) \notin DOMAIN s.mem

RaceFrame ==
  UNCHANGED <<now, memoryStore, rlConfig, env, written, accepted, window, pair,
              cleanupInterval, sweeps, emailService>>

CreateSessionRace(user, random, o) ==
  \E r \in {createSession(Store, user.userId, user.email, random, o)} :
  /\ \A id \in sessionIds : id[Len(id)] # random
  /\ PutStore(r.s)
  /\ sessionIds' = IF r.threw THEN sessionIds ELSE sessionIds \cup {r.sessionId}
  /\ scenario' = Without(scenario, r.sessionId)
  /\ last' = [op |-> "createSession", at |-> now, id |-> r.sessionId,
              threw |-> r.threw, calls |-> r.calls]
  /\ UNCHANGED verifiers
  /\ RaceFrame

\* validateSession or refreshSession, up to the record it read.
SessionRead(c, op, sessionId, o1) ==
  /\ verifiers[c].pc = "idle"
  /\ \E r \in {validateSessionRead(Store, sessionId, o1)} :
       /\ PutStore(r.s)
       /\ verifiers' = [verifiers EXCEPT ![c] =
            IF r.found
            THEN InFlight("read", op, sessionId, r.sessionDataStr.value, Null)
            ELSE NotCalled]
       /\ last' = IF r.found THEN last
                  ELSE [op |-> op, at |-> now, id |-> sessionId, result |-> r.result,
                        calls |-> r.calls, readBeforeDelete |-> FALSE]
  /\ UNCHANGED <<sessionIds, scenario>>
  /\ RaceFrame

\* The write of validateSession; refreshSession goes on to its own write.
SessionWrite(c, o2) ==
  /\ verifiers[c].pc = "read"
  /\ \E r \in {validateSessionWrite(Store, verifiers[c].id, verifiers[c].data, o2)} :
       /\ PutStore(r.s)
       /\ verifiers' = [verifiers EXCEPT ![c] =
            IF @.op = "refreshSession" /\ r.result.success
            THEN InFlight("validated", @.op, @.id, r.result.session, Null)
            ELSE NotCalled]
       /\ last' = IF verifiers[c].op = "refreshSession" /\ r.result.success THEN last
                  ELSE [op |-> verifiers[c].op, at |-> now, id |-> verifiers[c].id,
                        result |-> r.result, calls |-> r.calls,
                        readBeforeDelete |-> verifiers[c].id \in DOMAIN scenario]
  /\ UNCHANGED <<sessionIds, scenario>>
  /\ RaceFrame

\* The write of refreshSession.
SessionRefreshWrite(c, o3) ==
  /\ verifiers[c].pc = "validated"
  /\ \E r \in {refreshSessionWrite(Store, verifiers[c].id, verifiers[c].data, o3)} :
       /\ PutStore(r.s)
       /\ verifiers' = [verifiers EXCEPT ![c] = NotCalled]
       /\ last' = [op |-> verifiers[c].op, at |-> now, id |-> verifiers[c].id,
                   result |-> r.result, calls |-> r.calls,
                   readBeforeDelete |-> verifiers[c].id \in DOMAIN scenario]
  /\ UNCHANGED <<sessionIds, scenario>>
  /\ RaceFrame

DeleteSessionRace(sessionId, o) ==
  \E r \in {deleteSession(Store, sessionId, o)} :
  /\ PutStore(r.s)
  /\ scenario' = IF Absent(r.s, sessionId)
                 THEN With(scenario, sessionId, [at |-> now])
                 ELSE scenario
  /\ last' = [op |-> "deleteSession", at |-> now, id |-> sessionId,
              threw |-> r.threw, calls |-> r.calls]
  /\ UNCHANGED <<sessionIds, verifiers>>
  /\ RaceFrame

SessionRaceOps == {"validateSession", "refreshSession"}

InitSessionRace ==
  /\ InitStore
  /\ memoryStore = Empty
  /\ rlConfig = Empty
  /\ env = DevEnv
  /\ last = NoCall
  /\ written = [redis |-> Empty, memory |-> Empty]
  /\ accepted = Empty
  /\ scenario = Empty
  /\ window = Empty
  /\ pair = NoPair
  /\ sessionIds = {}
  /\ cleanupInterval = Null
  /\ sweeps = <<>>
  /\ verifiers = [c \in SessionCallers |-> NotCalled]
  /\ emailService = NewEmailService

NextSessionRace ==
  \/ \E u \in SessionUsers, x \in SessionRandoms, o \in Outcomes : CreateSessionRace(u, x, o)
  \/ \E c \in SessionCallers, op \in SessionRaceOps, i \in sessionIds, o1 \in Outcomes :
       SessionRead(c, op, i, o1)
  \/ \E c \in SessionCallers, o2 \in Outcomes : SessionWrite(c, o2)
  \/ \E c \in SessionCallers, o3 \in Outcomes : SessionRefreshWrite(c, o3)
  \/ \E i \in sessionIds, o \in Outcomes : DeleteSessionRace(i, o)
  \/ TickSession
  \/ RedisError
  \/ RedisConnect
  \/ MemoryCacheCleanup

SpecSessionRace == InitSessionRace /\ [][NextSessionRace]_vars

(***************************************************************************)
(* C32.  After deleteSession(id) has completed, the session record for id  *)
(* is absent and stays absent until createSession, even when a             *)
(* validateSession(id) or refreshSession(id) that read the record before   *)
(* the delete is still in flight and performs its re-persisting write      *)
(* after the delete.                                                       *)
(***************************************************************************)
\* C32: a session that deleteSession has removed from both backends is in
\* neither of them.
C32_StaysAbsent ==
  \A id \in DOMAIN scenario : Absent(Store, id)

\* Run without another call in between, the steps of a call are
\* validateSession and refreshSession.
C32_StepsAreTheCalls ==
  \A i \in sessionIds, o1 \in Outcomes, o2 \in Outcomes, o3 \in Outcomes :
    LET whole == validateSession(Store, i, o1, o2)
        r == validateSessionRead(Store, i, o1)
        w == validateSessionWrite(r.s, i, r.sessionDataStr.value, o2)
        refresh == refreshSession(Store, i, o1, o2, o3)
        x == refreshSessionWrite(w.s, i, w.result.session, o3)
    IN  /\ IF r.found
           THEN whole.s = w.s /\ whole.result = w.result /\ whole.calls = r.calls \o w.calls
           ELSE whole.s = r.s /\ whole.result = r.result /\ whole.calls = r.calls
        /\ IF r.found /\ w.result.success
           THEN refresh.s = x.s /\ refresh.result = x.result
                  /\ refresh.calls = r.calls \o w.calls \o x.calls
           ELSE refresh = whole

\* The write of a call that read the record before the delete has put the
\* record back.
C32_WitnessResurrected ==
  /\ last.op \in SessionRaceOps
  /\ last.readBeforeDelete
  /\ last.result.success
  /\ ~Absent(Store, last.id)
(***************************************************************************)
(* Concurrent checkRateLimit calls on the Redis-backed path                *)
(* (rate-limiter.ts 68-141).  checkRedisRateLimit gives way at its awaits: *)
(* once while the store reads the counter, once while it writes the        *)
(* counter plus one.  checkRedisRateLimitRead is the call up to the count  *)
(* it read, checkRedisRateLimitWrite the comparison, the write and the     *)
(* result; another caller's steps may run in between.  The clock stays     *)
(* within one window.  scenario[key] counts the allowed = true results of  *)
(* the calls whose read and write the remote cache served.                 *)
(***************************************************************************)
MaxTicksRLRace == 1

checkRedisRateLimitRead(s, key, o1) ==
  LET g == Get(s, key, o1)
  IN  [s |-> g.s, threw |-> g.threw,
       count |-> IF g.value.found THEN ParseInt(g.value.value) ELSE 0,
       calls |-> <<Call("get", g)>>]

checkRedisRateLimitWrite(s, key, config, count, nowSec, o2) ==
  LET ttl == getRedisTTL(key)
      newCount == count + 1
      w == Set(s, key, NumberToString(newCount), config.windowSeconds, o2)
  IN  IF count >= config.maxRequests
      THEN [s |-> s, threw |-> FALSE, calls |-> <<>>,
            result |-> Exceeded(nowSec + (IF ttl.found THEN ttl.value ELSE config.windowSeconds))]
      ELSE IF w.threw
      THEN [s |-> w.s, threw |-> TRUE, calls |-> <<Call("set", w)>>]
      ELSE [s |-> w.s, threw |-> FALSE, calls |-> <<Call("set", w)>>,
            result |-> Allowed(config.maxRequests - newCount,
                               nowSec + config.windowSeconds)]

\* "Fail open - allow operation if rate limiting fails"
FailOpen(config, nowSec) == Allowed(config.maxRequests, nowSec + config.windowSeconds)

RLCallers == {"c1", "c2"}

Checking(key, count, calls) == [pc |-> "read", key |-> key, count |-> count, calls |-> calls]

ServedByRedis(calls) ==
  \A i \in DOMAIN calls : calls[i].served = "redis" /\ ~calls[i].threw

RLRaceFrame ==
  UNCHANGED <<now, memoryStore, rlConfig, env, written, accepted, window, pair,
              sessionIds, cleanupInterval, sweeps, emailService>>

\* checkRateLimit on a connected store, up to the count it read.
CheckRateLimitRead(c, identifier, operation, o1) ==
  /\ verifiers[c].pc = "idle"
  /\ IsConnected(Store)
  /\ \A k \in DOMAIN scenario : scenario[k].allowed <= FinalConfig(rlConfig).maxRequests
  /\ \E r \in {checkRedisRateLimitRead(Store, RLKey(identifier, operation), o1)} :
       /\ PutStore(r.s)
       /\ verifiers' = [verifiers EXCEPT ![c] =
            IF r.threw THEN NotCalled
            ELSE Checking(RLKey(identifier, operation), r.count, r.calls)]
       /\ last' = IF ~r.threw THEN last
                  ELSE [op |-> "checkRateLimit", at |-> now,
                        key |-> RLKey(identifier, operation), path |-> "redis",
                        threw |-> FALSE, calls |-> r.calls, caller |-> c,
                        result |-> FailOpen(FinalConfig(rlConfig), now)]
  /\ UNCHANGED scenario
  /\ RLRaceFrame

\* The rest of that call: the comparison, the write, the result.
CheckRateLimitWrite(c, o2) ==
  /\ verifiers[c].pc = "read"
  /\ \E r \in {checkRedisRateLimitWrite(Store, verifiers[c].key, FinalConfig(rlConfig),
                                        verifiers[c].count, now, o2)} :
     \E result \in {IF r.threw THEN FailOpen(FinalConfig(rlConfig), now) ELSE r.result} :
     \E calls \in {verifiers[c].calls \o r.calls} :
       /\ PutStore(r.s)
       /\ verifiers' = [verifiers EXCEPT ![c] = NotCalled]
       /\ last' = [op |-> "checkRateLimit", at |-> now, key |-> verifiers[c].key,
                   path |-> "redis", threw |-> FALSE, calls |-> calls, caller |-> c,
                   result |-> result]
       /\ scenario' =
            IF result.allowed /\ ServedByRedis(calls) /\ verifiers[c].key \in DOMAIN scenario
            THEN [scenario EXCEPT ![verifiers[c].key].allowed = @ + 1]
            ELSE scenario
  /\ RLRaceFrame

TickRLRace == Advance(1, 0..MaxTicksRLRace)

InitRLRace ==
  /\ InitStore
  /\ memoryStore = Empty
  /\ rlConfig = RLConfig
  /\ env = DevEnv
  /\ last = NoCall
  /\ written = [redis |-> Empty, memory |-> Empty]
  /\ accepted = Empty
  /\ scenario = [k \in RLKeys |-> [allowed |-> 0]]
  /\ window = Empty
  /\ pair = NoPair
  /\ sessionIds = {}
  /\ cleanupInterval = Null
  /\ sweeps = <<>>
  /\ verifiers = [c \in RLCallers |-> NotCalled]
  /\ emailService = NewEmailService

NextRLRace ==
  \/ \E c \in RLCallers, i \in RLIdentifiers, op \in RLOperations, o1 \in Outcomes :
       CheckRateLimitRead(c, i, op, o1)
  \/ \E c \in RLCallers, o2 \in Outcomes : CheckRateLimitWrite(c, o2)
  \/ TickRLRace
  \/ RedisError
  \/ RedisConnect

SpecRLRace == InitRLRace /\ [][NextRLRace]_vars

(***************************************************************************)
(* C33.  When several checkRateLimit calls for the same key run            *)
(* concurrently on the Redis-backed path (separate read and write round    *)
(* trips), the number of calls that return allowed = true within one       *)
(* window never exceeds maxRequests.                                       *)
(***************************************************************************)
\* C33: at most maxRequests calls served by the remote cache have returned
\* allowed = true in the window.
C33_AllowedWithinLimit ==
  \A k \in DOMAIN scenario : scenario[k].allowed <= FinalConfig(rlConfig).maxRequests

\* Run without another call in between, on a connected store, the two steps
\* of a call are checkRateLimit.
C33_StepsAreCheckRateLimit ==
  \A i \in RLIdentifiers, op \in RLOperations, o1 \in Outcomes, o2 \in Outcomes :
    IsConnected(Store) =>
      LET whole == checkRateLimit(Store, memoryStore, i, op, rlConfig, o1, o2)
          r == checkRedisRateLimitRead(Store, RLKey(i, op), o1)
          w == checkRedisRateLimitWrite(r.s, RLKey(i, op), FinalConfig(rlConfig),
                                        r.count, now, o2)
      IN  /\ whole.s = w.s
          /\ whole.calls = r.calls \o w.calls
          /\ whole.result = IF w.threw THEN FailOpen(FinalConfig(rlConfig), now)
                            ELSE w.result

\* More calls than maxRequests have been allowed, and the counter in the
\* remote cache shows fewer.
C33_WitnessOverLimit ==
  \E k \in DOMAIN scenario :
    /\ scenario[k].allowed > FinalConfig(rlConfig).maxRequests
    /\ k \in DOMAIN redis
    /\ ParseInt(redis[k].value) <= FinalConfig(rlConfig).maxRequests
(***************************************************************************)
(* SpecRLSwitch: checkRateLimit calls for one key within one window while  *)
(* the connection status of the store changes between them.  scenario[key] *)
(* counts the allowed = true results of the calls that the backend of      *)
(* their path served without a fallback.                                   *)
(***************************************************************************)
CheckRateLimitCounted(identifier, operation, o1, o2) ==
  \E r \in {checkRateLimit(Store, memoryStore, identifier, operation, rlConfig, o1, o2)} :
  LET key == RLKey(identifier, operation)
  IN  /\ \A k \in DOMAIN scenario : scenario[k].allowed <= FinalConfig(rlConfig).maxRequests
      /\ PutStore(r.s)
      /\ memoryStore' = r.ms
      /\ last' = [op |-> "checkRateLimit", at |-> now, key |-> key, path |-> r.path,
                  threw |-> r.threw, calls |-> r.calls, result |-> r.result,
                  onePath |-> OnePath(r)]
      /\ scenario' =
           IF r.result.allowed /\ OnePath(r) /\ key \in DOMAIN scenario
           THEN [scenario EXCEPT ![key] =
                   [allowed |-> @.allowed + 1, paths |-> @.paths \cup {r.path}]]
           ELSE scenario
      /\ UNCHANGED <<now, rlConfig, env, written, accepted, window, pair, sessionIds,
                     cleanupInterval, sweeps, verifiers, emailService>>

InitRLSwitch ==
  /\ InitStore
  /\ memoryStore = Empty
  /\ rlConfig = RLConfig
  /\ env = DevEnv
  /\ last = NoCall
  /\ written = [redis |-> Empty, memory |-> Empty]
  /\ accepted = Empty
  /\ scenario = [k \in RLKeys |-> [allowed |-> 0, paths |-> {}]]
  /\ window = Empty
  /\ pair = NoPair
  /\ sessionIds = {}
  /\ cleanupInterval = Null
  /\ sweeps = <<>>
  /\ verifiers = Empty
  /\ emailService = NewEmailService

NextRLSwitch ==
  \/ \E i \in RLIdentifiers, op \in RLOperations, o1 \in Outcomes, o2 \in Outcomes :
       CheckRateLimitCounted(i, op, o1, o2)
  \/ TickRLRace
  \/ RedisError
  \/ RedisConnect

SpecRLSwitch == InitRLSwitch /\ [][NextRLSwitch]_vars

(***************************************************************************)
(* C34.  The rate limit for a key is preserved across changes of the       *)
(* store's connection status: if isConnected() changes between calls of    *)
(* checkRateLimit for the same key, the total number of allowed = true     *)
(* results in one window still does not exceed maxRequests.                *)
(***************************************************************************)
\* C34: at most maxRequests calls of the window have returned
\* allowed = true, whichever backend served them.
C34_LimitAcrossBackends ==
  \A k \in DOMAIN scenario : scenario[k].allowed <= FinalConfig(rlConfig).maxRequests

\* While one backend serves every call, the limit holds.
C34_LimitOnOneBackend ==
  \A k \in DOMAIN scenario :
    Cardinality(scenario[k].paths) <= 1
      => scenario[k].allowed <= FinalConfig(rlConfig).maxRequests

\* The counter of the remote cache and the counter of memoryStore each
\* stand at or below the limit while more calls than that have been allowed.
C34_WitnessTwoCounters ==
  \E k \in DOMAIN scenario :
    /\ scenario[k].allowed > FinalConfig(rlConfig).maxRequests
    /\ scenario[k].paths = {"redis", "memory"}
    /\ k \in DOMAIN redis /\ ParseInt(redis[k].value) <= FinalConfig(rlConfig).maxRequests
    /\ k \in DOMAIN memoryStore /\ memoryStore[k].count <= FinalConfig(rlConfig).maxRequests
(***************************************************************************)
(* C35.  Once the store's connection flag is false, get, set, delete,      *)
(* getTTL and scanKeys issue no remote operation at all; the flag returns  *)
(* to true only through a 'connect' event of the client, never as the      *)
(* result of one of these operations.                                      *)
(***************************************************************************)
\* What each operation does to a store whose flag is false.
Disconnected(r) ==
  /\ r.served = "memory"
  /\ ~r.threw
  /\ ~r.s.avail
  /\ r.s.redis = redis

\* C35: with the flag false no operation reaches the remote cache: whatever
\* a remote call would answer, the operation is served by the memory map,
\* leaves the remote cache as it is and leaves the flag false.
C35_NoRemoteOperation ==
  ~isRedisAvailable =>
    /\ \A k \in KVKeys, o \in Outcomes :
         /\ Disconnected(Get(Store, k, o)) /\ Get(Store, k, o) = MemGet(Store, k)
         /\ Disconnected(GetTTL(Store, k, o)) /\ GetTTL(Store, k, o) = MemGetTTL(Store, k)
         /\ Disconnected(Delete(Store, k, o)) /\ Delete(Store, k, o).s = MemDelete(Store, k)
    /\ \A w \in KVWrites, o \in Outcomes :
         /\ Disconnected(Set(Store, w.key, w.value, w.ttl, o))
         /\ Set(Store, w.key, w.value, w.ttl, o) = MemSet(Store, w.key, w.value, w.ttl)
    /\ \A p \in KVPatterns, o \in Outcomes :
         /\ Disconnected(ScanKeys(Store, p, o))
         /\ ScanKeys(Store, p, o) = MemScan(Store, p)

\* C35: the call of the store that completed last, if the flag was false
\* when it began, was served by the memory map and left the flag false.
C35_CallsStayDisconnected ==
  (KvCall /\ ~last.wasConnected) =>
    /\ last.served = "memory"
    /\ ~last.remoteThrew
    /\ ~last.connected

\* A step in which the flag turns from false to true is the 'connect'
\* event: the store has a client and nothing else changes.
OnlyConnectRaisesFlag ==
  (~isRedisAvailable /\ isRedisAvailable') =>
    /\ client
    /\ UNCHANGED <<now, client, redis, memoryCache, memoryStore, last, written>>

C35_FlagRaisedByConnectOnly == [][OnlyConnectRaisesFlag]_vars

\* C35: the three parts.
C35_DisconnectedStaysLocal ==
  /\ [](C35_NoRemoteOperation /\ C35_CallsStayDisconnected)
  /\ C35_FlagRaisedByConnectOnly

\* A get on a store that has a client and whose flag is false returns null
\* for a key the remote cache holds.
C35_Witness ==
  /\ last.op = "get"
  /\ last.at = now
  /\ client
  /\ ~last.wasConnected
  /\ ~isRedisAvailable
  /\ last.key \in DOMAIN redis
  /\ last.value = Null

\* The flag is true again after calls were served while it was false.
C35_WitnessReconnected ==
  /\ KvCall
  /\ ~last.wasConnected
  /\ isRedisAvailable
(***************************************************************************)
(* SpecTokenLife: token pairs are minted for one user; the tokens of the   *)
(* pair minted last, the crafted tokens and every token that was used or   *)
(* rejected before are verified and used for a refresh as the clock runs   *)
(* past the two expiries.  accepted.used holds the refresh tokens a        *)
(* successful refreshAccessToken was called with, accepted.expired the     *)
(* tokens verifyToken has rejected as expired.                             *)
(***************************************************************************)
MaxUsed == 1
MaxExpired == 1

LifeUser == [userId |-> "u1", email |-> "a@b.com"]

\* The crafted tokens that have the shape of a minted one, forged or not.
LifeCrafted ==
  {t \in CraftedTokens :
     /\ t.key # "malformed"
     /\ {"userId", "exp"} \subseteq DOMAIN t.payload
     /\ "nbf" \notin DOMAIN t.payload}

LifeTokens == LifeCrafted \cup PairTokens \cup accepted.used \cup accepted.expired

LifeInstants == {0, 1, ACCESS_TOKEN_EXPIRY, REFRESH_TOKEN_EXPIRY}

TickTokenLife == \E t \in LifeInstants : t > now /\ Advance(t - now, LifeInstants)

RejectedAsExpired(result) ==
  /\ result.threw
  /\ result.message = <<"Invalid token: ", "jwt expired">>

Noted(set, token, max) ==
  IF token \in set \/ Cardinality(set) < max THEN set \cup {token} ELSE set

LifeFrame ==
  UNCHANGED <<now, client, isRedisAvailable, redis, memoryCache, memoryStore,
              rlConfig, env, written, scenario, window, sessionIds,
              cleanupInterval, sweeps, verifiers, emailService>>

VerifyTokenLife(token) ==
  \E r \in {verifyToken(token)} :
    /\ last' = [op |-> "verifyToken", at |-> now, token |-> token, result |-> r,
                expiredBefore |-> token \in accepted.expired]
    /\ accepted' = IF RejectedAsExpired(r)
                   THEN [accepted EXCEPT !.expired = Noted(@, token, MaxExpired)]
                   ELSE accepted
    /\ UNCHANGED pair
    /\ LifeFrame

RefreshAccessTokenLife(token) ==
  \E r \in {refreshAccessToken(token)} :
    /\ last' = [op |-> "refreshAccessToken", at |-> now, token |-> token, result |-> r,
                usedBefore |-> token \in accepted.used]
    /\ accepted' = IF r.threw THEN accepted
                   ELSE [accepted EXCEPT !.used = Noted(@, token, MaxUsed)]
    /\ pair' = IF r.threw THEN pair
               ELSE Minted(token.payload.userId, token.payload.email, r)
    /\ LifeFrame

InitTokenLife ==
  /\ now = 0
  /\ client = FALSE
  /\ isRedisAvailable = FALSE
  /\ redis = Empty
  /\ memoryCache = Empty
  /\ memoryStore = Empty
  /\ rlConfig = Empty
  /\ env \in Environments
  /\ last = NoCall
  /\ written = [redis |-> Empty, memory |-> Empty]
  /\ accepted = [used |-> {}, expired |-> {}]
  /\ scenario = Empty
  /\ window = Empty
  /\ pair = NoPair
  /\ sessionIds = {}
  /\ cleanupInterval = Null
  /\ sweeps = <<>>
  /\ verifiers = Empty
  /\ emailService = NewEmailService

NextTokenLife ==
  \/ CreateTokenPair(LifeUser.userId, LifeUser.email)
  \/ \E t \in LifeTokens : VerifyTokenLife(t)
  \/ \E t \in LifeTokens : RefreshAccessTokenLife(t)
  \/ TickTokenLife

SpecTokenLife == InitTokenLife /\ [][NextTokenLife]_vars

(***************************************************************************)
(* C36.  Token lifecycle is monotonic and has no server-side revocation: a *)
(* token is accepted by verifyToken at time t exactly when its signature   *)
(* is valid and t has not passed exp; once it is rejected as expired it is *)
(* never accepted again; and a refresh token that was used in a successful *)
(* refreshAccessToken is still accepted by later refreshAccessToken calls  *)
(* until its own exp.                                                      *)
(***************************************************************************)
\* A token as the service mints it: the three identity claims, each a
\* non-empty string, an expiry and no nbf.
MintedShape(token) ==
  /\ token.key # "malformed"
  /\ ~Falsy(token.payload, "userId")
  /\ ~Falsy(token.payload, "email")
  /\ ~Falsy(token.payload, "type")
  /\ "exp" \in DOMAIN token.payload
  /\ "nbf" \notin DOMAIN token.payload

SecretAvailable == ~getJWTSecret.threw

\* C36: where the service has its secret, verifyToken accepts a token of
\* that shape exactly when it is signed with the secret and the clock is
\* before exp.
C36_AcceptedWhileValid ==
  (last.op = "verifyToken" /\ MintedShape(last.token) /\ SecretAvailable)
    => (~last.result.threw
          <=> last.token.key = JWT_SECRET /\ last.at < last.token.payload.exp)

\* C36: a token verifyToken has rejected as expired is rejected by
\* verifyToken and by refreshAccessToken from then on.
C36_ExpiredForGood ==
  /\ \A t \in accepted.expired :
       RejectedAsExpired(verifyToken(t)) /\ refreshAccessToken(t).threw
  /\ (last.op = "verifyToken" /\ last.expiredBefore) => RejectedAsExpired(last.result)

\* C36: a refresh token a successful refreshAccessToken was called with is
\* accepted by refreshAccessToken and verifyToken until its exp.
C36_NoRevocation ==
  /\ \A t \in accepted.used :
       now < t.payload.exp
         => ~refreshAccessToken(t).threw /\ ~verifyToken(t).threw
  /\ (last.op = "refreshAccessToken" /\ last.usedBefore)
       => (~last.result.threw <=> last.at < last.token.payload.exp)

\* C36: the three parts.
C36_TokenLifecycle ==
  /\ C36_AcceptedWhileValid
  /\ C36_ExpiredForGood
  /\ C36_NoRevocation

\* A refresh token used before has been used again, after the pair it
\* produced replaced it, and is still short of its exp.
C36_Witness ==
  /\ last.op = "refreshAccessToken"
  /\ last.usedBefore
  /\ ~last.result.threw
  /\ last.at > last.token.payload.iat
  /\ pair.minted /\ pair.tokens.refreshToken # last.token

\* A token rejected as expired before has been presented again.
C36_WitnessExpired ==
  /\ last.op = "verifyToken"
  /\ last.expiredBefore
  /\ last.at >= last.token.payload.exp
  /\ RejectedAsExpired(last.result)

\* A used refresh token has reached its exp and is refused.
C36_WitnessUsedExpired ==
  /\ last.op = "refreshAccessToken"
  /\ last.usedBefore
  /\ last.result.threw
(***************************************************************************)
(* C37.  For every email sent in production mode, attempts never exceeds   *)
(* 3, the status moves only along pending -> retrying -> sent or failed,   *)
(* 'sent' and 'failed' are never left once reached, and after two failed   *)
(* attempts followed by a successful one the status is 'sent' with         *)
(* attempts = 3.                                                           *)
(***************************************************************************)
DeliveryStatus(e) == emailService.deliveryStatusMap[e]

\* C37: every delivery status has made between one and three attempts; it
\* is 'retrying' with a failed attempt behind it and a retry ahead, 'sent',
\* or 'failed' after the third.
C37_AttemptsBounded ==
  \A e \in DOMAIN emailService.deliveryStatusMap :
    /\ DeliveryStatus(e).attempts \in 1..MAX_RETRY_ATTEMPTS
    /\ DeliveryStatus(e).status \in {"retrying", "sent", "failed"}
    /\ DeliveryStatus(e).status = "retrying" => DeliveryStatus(e).attempts < MAX_RETRY_ATTEMPTS
    /\ DeliveryStatus(e).status = "failed" => DeliveryStatus(e).attempts = MAX_RETRY_ATTEMPTS

\* C37: the attempt that succeeds leaves the status 'sent'; the third
\* attempt leaves it 'sent' when it succeeds and 'failed' when it fails.
C37_OutcomeOfAttempt ==
  (last.op = "retry" /\ last.attempted /\ last.emailId \in DOMAIN emailService.deliveryStatusMap)
    => /\ ~last.sendMailFailed => DeliveryStatus(last.emailId).status = "sent"
       /\ last.sendMailFailed =>
            DeliveryStatus(last.emailId).status =
              IF DeliveryStatus(last.emailId).attempts = MAX_RETRY_ATTEMPTS
              THEN "failed" ELSE "retrying"

\* A step takes a status from 'pending' with no attempt to its first
\* attempt, from 'retrying' to one more attempt, and leaves a status that is
\* 'sent' or 'failed' as it is.
StatusStep ==
  /\ \A e \in DOMAIN emailService.deliveryStatusMap \cap DOMAIN emailService'.deliveryStatusMap :
       LET a == emailService.deliveryStatusMap[e]
           b == emailService'.deliveryStatusMap[e]
       IN  /\ a.status \in {"sent", "failed"} => b = a
           /\ a.status = "retrying" =>
                \/ b = a
                \/ /\ b.attempts = a.attempts + 1
                   /\ b.status \in {"retrying", "sent", "failed"}
  /\ \A e \in DOMAIN emailService'.deliveryStatusMap \ DOMAIN emailService.deliveryStatusMap :
       /\ e = emailService.issued + 1
       /\ emailService'.deliveryStatusMap[e].attempts = 1
       /\ emailService'.deliveryStatusMap[e].status \in {"retrying", "sent"}

C37_StatusMovesForward == [][StatusStep]_vars

\* C37: the parts together.
C37_DeliveryStatus ==
  /\ [](C37_AttemptsBounded /\ C37_OutcomeOfAttempt)
  /\ C37_StatusMovesForward

\* Two failed attempts and a successful third: 'sent' with attempts = 3.
C37_Witness ==
  /\ last.op = "retry"
  /\ last.attempted
  /\ ~last.sendMailFailed
  /\ last.emailId \in DOMAIN emailService.deliveryStatusMap
  /\ DeliveryStatus(last.emailId).status = "sent"
  /\ DeliveryStatus(last.emailId).attempts = 3
  /\ last.at = 2 * (RETRY_DELAY \div 1000)
(***************************************************************************)
(* C38.  delete(key) removes the key from the in-memory map on every path  *)
(* (connected, disconnected, or remote delete failing), so that after      *)
(* delete(key) a get(key) served from memory returns null; and after       *)
(* delete(key) returns, a get(key) served by either backend returns null.  *)
(***************************************************************************)
\* delete was the last call of the store; no set has followed it.
DeleteReturned == last.op = "delete" /\ ~last.threw

\* C38 (first half): after delete(key) the memory map has no entry for key
\* and a get(key) served from memory returns null, on every path.
C38_AbsentFromMemory ==
  DeleteReturned =>
    /\ last.key \notin DOMAIN memoryCache
    /\ \A o \in Outcomes :
         Get(Store, last.key, o).served = "memory" => Get(Store, last.key, o).value = Null

\* C38 (second half): after delete(key) a get(key) served by the remote
\* cache returns null too.
C38_AbsentFromRemote ==
  DeleteReturned =>
    \A o \in Outcomes :
      Get(Store, last.key, o).served = "redis" => Get(Store, last.key, o).value = Null

\* C38: both halves.
C38_DeleteRemoves == C38_AbsentFromMemory /\ C38_AbsentFromRemote

\* delete returned after its remote DEL failed, and a get served by the
\* remote cache returns the value.
C38_WitnessStillRemote ==
  /\ DeleteReturned
  /\ last.remoteThrew
  /\ isRedisAvailable
  /\ Get(Store, last.key, "ok").served = "redis"
  /\ Get(Store, last.key, "ok").value # Null

\* delete was served while disconnected; reconnected, a get served by the
\* remote cache returns the value.
C38_WitnessDisconnectedDelete ==
  /\ DeleteReturned
  /\ ~last.wasConnected
  /\ isRedisAvailable
  /\ Get(Store, last.key, "ok").value # Null

====
